---- MODULE Spec2Model ----
(***************************************************************************)
(* A model of the AWS network benchmark scripts:                           *)
(*   - the latency and point-to-point test runners (pair enumeration),     *)
(*   - collect_results / parse_data (region reconciliation),               *)
(*   - format_data (matrix aggregation),                                   *)
(*   - run_benchmark.main (the provision/test/collect/destroy workflow).   *)
(* Each part has its own specification over the module's variables; the    *)
(* variables of the other parts stay at their idle values.                 *)
(***************************************************************************)
EXTENDS Integers, Sequences, FiniteSets, TLC

\* ------------------------------------------------------------------ bounds
\* Largest instance directory: regions, and instances per region.
MaxRegions == 3
MaxIps == 2

\* Python's None, as it appears in arguments and return values.
None == "None"

\* Region codes in the order the instance directory lists them (insertion
\* order of instance_info.json, which is not the sorted order).
RegionList == <<"us-east-1", "eu-west-2", "ap-northeast-1", "us-west-2", "eu-central-1">>

Range(s) == {s[i] : i \in 1..Len(s)}

VARIABLES
    \* ---- the test runners (latency_test.py, point_to_point_test.py,
    \*      udp_multicast_test.py)
    runner,          \* which script runs: "latency" | "p2p" | "udp" | "idle"
    regions,         \* list(instance_data["instances"].keys())
    instances,       \* instance_data["instances"]: region -> {public_ips, private_ips}
    use_private_ip,  \* --use-private-ip
    all_regions,     \* --all-regions
    intra_region,    \* --intra-region
    source_region,   \* --source-region (None when absent)
    target_region,   \* --target-region (None when absent)
    server_region,   \* --server-region of the UDP test (None for the other runners)
    pc,              \* position of the runner
    src_i,           \* index of src_region in regions (the outer loop)
    dest_i,          \* index of dest_region in the inner loop
    intra_ij,        \* <<i, j>> of the intra-region instance loops
    results,         \* the runner's results list
    attempts,        \* every test command the runner issued, in order
    warnings,        \* the "Warning: ... skipping" lines printed
    summary,         \* the summary/CSV file the runner wrote (None: not written)
    retval,          \* the runner's return value
    \* ---- format_data.py: a parsed DataFrame and the matrices made from it
    df_kind,         \* which DataFrame df is: "latency" | "p2p" | "udp" | "idle"
    df,              \* the rows of the DataFrame, in order
    mx_pc,           \* "ready" (df loaded) | "done" (matrices made) | "idle"
    matrix,          \* the latency / bandwidth matrix
    loss_matrix,     \* the UDP loss matrix
    \* ---- collect_results.py / parse_data.py
    data_dir,        \* the files of the data directory, as glob lists them
    rc_pc,           \* "collect" | "parse" | "parsed" | "idle"
    all_results,     \* the collected results (point_to_point_tests, udp_multicast_tests)
    \* ---- run_benchmark.py main
    args,            \* the command line flags
    config,          \* the loaded configuration
    files,           \* what exists on disk: the public key, instance_info.json, ...
    main_pc,         \* the statement main is at
    commands,        \* the stages and commands run so far, in order
    failed,          \* the commands that exited non-zero
    exit_code,       \* main's return value (None while running)
    \* ---- the writers of instance_info.json (run_benchmark.setup_terraform,
    \*      generate_instance_info.py)
    tf_regions,      \* aws_regions of the configuration Terraform was generated from
    writer,          \* who wrote instance_info.json ("none": not written yet)
    instance_info,   \* the "instances" dict written, as its items in insertion order
    \* ---- UI.py: the button handlers and the threads they start
    ui_pc,           \* the statement the Streamlit script is at
    benchmark_running,  \* st.session_state.benchmark_running
    run_no,          \* how many runs (benchmark or cleanup) reached the thread start
    threads,         \* the threads started, as <<run, target>>
    worker_pc,       \* run -> position of run_script_in_thread
    output_queue,    \* run -> the items on that run's output_queue, oldest first
    run_output,      \* the items taken off a queue for display, in order
    cleanup_running, \* st.session_state.cleanup_running
    command,         \* run -> the command its worker was started with
    \* ---- the test stage of run_benchmark.py as processes
    sched_config,    \* the configuration run_network_tests was called with
    sched_files,     \* whether data/instance_info.json exists
    planned,         \* the tests the loops of the latency runner come to
    sched_pc,        \* the statement run_network_tests is at
    procs,           \* the runner processes that are alive
    runner_pc,       \* test type -> position of that runner process
    test_i,          \* the test the runner's loop is at
    in_progress      \* the tests whose command was started and has not returned

runnerInputs == <<runner, regions, instances, use_private_ip, all_regions,
                  intra_region, source_region, target_region, server_region>>
runnerState == <<pc, src_i, dest_i, intra_ij, results, attempts, warnings,
                 summary, retval>>
runnerVars == <<runnerInputs, runnerState>>
matrixVars == <<df_kind, df, mx_pc, matrix, loss_matrix>>
reconcileVars == <<data_dir, rc_pc, all_results>>
mainVars == <<args, config, files, main_pc, commands, failed, exit_code>>
directoryVars == <<tf_regions, writer, instance_info>>
uiVars == <<ui_pc, benchmark_running, run_no, threads, worker_pc, output_queue, run_output,
            cleanup_running, command>>
scheduleVars == <<sched_config, sched_files, planned, sched_pc, procs, runner_pc, test_i,
                  in_progress>>
otherVars == <<directoryVars, uiVars, scheduleVars>>
vars == <<runnerVars, matrixVars, reconcileVars, mainVars, otherVars>>

\* What an action of one script leaves alone besides its own inputs.
runnerFrame == <<runnerInputs, matrixVars, reconcileVars, mainVars, otherVars>>
matrixFrame == <<runnerVars, reconcileVars, mainVars, otherVars>>

\* ------------------------------------------------------- instance directory

\* The addresses of the k instances of region r, of one kind.
IpList(kind, r, k) == [i \in 1..k |-> <<kind, r, i>>]

\* An instance directory over the first n regions: every instance has a
\* private address; public addresses exist when the subnets assign them.
Directory(n, count, public_assigned) ==
    [r \in Range(SubSeq(RegionList, 1, n)) |->
        LET k == count[CHOOSE i \in 1..n : RegionList[i] = r]
        IN  [public_ips  |-> IF public_assigned THEN IpList("public", r, k) ELSE <<>>,
             private_ips |-> IpList("private", r, k)]]

\* ip_type / ip_key: the directory key both runners read.
ip_type == IF use_private_ip THEN "private_ips" ELSE "public_ips"

\* A region label of a latency record: the region, or "<region>_instance<n>".
Label(r, n) == [region |-> r, instance |-> n]

\* ------------------------------------------------------------ latency_test

\* The fixed arguments of the run (argparse values, as the shell sees them).
SSH_KEY_PATH == "~/.ssh/aws-network-benchmark"
PING_COUNT == "20"
OUTPUT_DIR == "/project/data"
DefaultCount == "10"
DefaultOutputDir == "../data"

\* Accounts that exist on the instances, and what ping -c accepts.
LoginUsers == {"ec2-user"}
NumericStrings == {"10", "20"}

\* The names bound in run_latency_benchmark when a ping call site is reached
\* (its parameters and locals); ssh_user is none of them.
LatencyScope(s_ip, t_ip) ==
    [ssh_key_path |-> SSH_KEY_PATH, ping_count |-> PING_COUNT,
     output_dir |-> OUTPUT_DIR, source_ip |-> s_ip, target_ip |-> t_ip,
     s_ip |-> s_ip, t_ip |-> t_ip]

\* The positional argument names of the three call sites of run_ping_test.
IntraSiteArgs == <<"t_ip", "s_ip", "ssh_key_path", "ssh_user", "ping_count", "output_dir">>
InterSiteArgs == <<"target_ip", "source_ip", "ssh_key_path", "ping_count", "output_dir">>
SpecificSiteArgs == <<"target_ip", "source_ip", "ssh_key_path", "ping_count", "output_dir">>

\* Evaluating the arguments raises NameError when a name is unbound.
ArgsBound(argnames, scope) == \A k \in 1..Len(argnames) : argnames[k] \in DOMAIN scope

\* run_ping_test's parameters bound positionally, defaults for the rest.
BindPing(argnames, scope) ==
    LET val(k) == scope[argnames[k]]
    IN  [server_ip  |-> val(1),
         client_ip  |-> val(2),
         ssh_key    |-> val(3),
         ssh_user   |-> val(4),
         count      |-> IF Len(argnames) >= 5 THEN val(5) ELSE DefaultCount,
         output_dir |-> IF Len(argnames) >= 6 THEN val(6) ELSE DefaultOutputDir]

\* Whether the ssh/ping/scp commands of a call can succeed: the login must
\* exist and ping needs a number for -c; otherwise subprocess.run raises
\* CalledProcessError.
PingOutcomes(call) ==
    IF call.ssh_user \in LoginUsers /\ call.count \in NumericStrings
    THEN {TRUE, FALSE} ELSE {FALSE}

\* What run_ping_test returns on success: the result file and the stats.
PingResult(call) ==
    [result_file |-> [dir |-> call.output_dir, server_ip |-> call.server_ip,
                      client_ip |-> call.client_ip],
     ping_stats  |-> [source_ip |-> call.client_ip, target_ip |-> call.server_ip,
                      ping_count |-> call.count]]

\* The ordered region pair the all-regions loops are at.
src_region == regions[src_i]
dest_region == regions[dest_i]

\* A variant of the skip condition: never skipping.
SkipSameRegion_never(src, dest) == FALSE

\* The loop condition of line 162: same-region pairs are skipped unless
\* --intra-region was given.
SkipSameRegion(src, dest) == ~intra_region /\ src = dest

\* Advance the nested region loops to the next (src, dest).
NextPair ==
    IF dest_i < Len(regions)
    THEN src_i' = src_i /\ dest_i' = dest_i + 1
    ELSE src_i' = src_i + 1 /\ dest_i' = 1

\* One ping call from a call site: the attempt is logged, and a record is
\* appended when run_ping_test returned a file and stats.
PingFrom(site, argnames, src, dest, src_label, dest_label, s_ip, t_ip) ==
    LET call == BindPing(argnames, LatencyScope(s_ip, t_ip))
    IN  /\ attempts' = Append(attempts, [site |-> site, src |-> src, dest |-> dest,
                                         call |-> call])
        /\ \E ok \in PingOutcomes(call) :
              results' = IF ok
                         THEN Append(results,
                                     [source_region |-> src_label,
                                      target_region |-> dest_label,
                                      result_file |-> PingResult(call).result_file,
                                      ping_stats |-> PingResult(call).ping_stats])
                         ELSE results

\* One iteration of "for src_region ... for dest_region ..." (lines 159-211).
LatencyPair ==
    /\ runner = "latency" /\ pc = "run" /\ all_regions
    /\ src_i <= Len(regions)
    /\ LET source_ips == instances[src_region][ip_type]
           target_ips == instances[dest_region][ip_type]
       IN  IF SkipSameRegion(src_region, dest_region)
           THEN /\ NextPair
                /\ UNCHANGED <<pc, intra_ij, results, attempts, warnings>>
           ELSE IF source_ips = <<>> \/ target_ips = <<>>
           THEN /\ warnings' = Append(warnings, <<src_region, dest_region>>)
                /\ NextPair
                /\ UNCHANGED <<pc, intra_ij, results, attempts>>
           ELSE IF src_region = dest_region /\ Len(source_ips) > 1
           THEN /\ pc' = "intra"
                /\ intra_ij' = <<1, 1>>
                /\ UNCHANGED <<src_i, dest_i, results, attempts, warnings>>
           ELSE \* src != dest, or the single instance of one region
                /\ PingFrom("inter", InterSiteArgs, src_region, dest_region,
                            Label(src_region, 0), Label(dest_region, 0),
                            source_ips[1], target_ips[1])
                /\ NextPair
                /\ UNCHANGED <<pc, intra_ij, warnings>>
    /\ UNCHANGED <<summary, retval, runnerFrame>>

\* One iteration of the instance loops of lines 178-193.
LatencyIntraPair ==
    /\ runner = "latency" /\ pc = "intra"
    /\ LET source_ips == instances[src_region][ip_type]
           target_ips == instances[dest_region][ip_type]
           i == intra_ij[1]
           j == intra_ij[2]
           last == i = Len(source_ips) /\ j = Len(target_ips)
           advance == /\ intra_ij' = IF j < Len(target_ips) THEN <<i, j + 1>>
                                     ELSE <<i + 1, 1>>
                      /\ IF last THEN pc' = "run" /\ NextPair
                                 ELSE UNCHANGED <<pc, src_i, dest_i>>
       IN  IF i = j
           THEN advance /\ UNCHANGED <<results, attempts>>
           ELSE IF ~ArgsBound(IntraSiteArgs, LatencyScope(source_ips[i], target_ips[j]))
           THEN \* NameError: the script ends with a traceback
                /\ pc' = "raised"
                /\ UNCHANGED <<src_i, dest_i, intra_ij, results, attempts>>
           ELSE /\ PingFrom("intra", IntraSiteArgs, src_region, dest_region,
                            Label(src_region, i), Label(dest_region, j),
                            source_ips[i], target_ips[j])
                /\ advance
    /\ UNCHANGED <<warnings, summary, retval, runnerFrame>>

\* Whether the single-pair branch is taken (line 213).
BothRegionsGiven == source_region # None /\ target_region # None

\* all_regions false, both regions given (lines 213-238). A region that the
\* instance directory does not list raises KeyError.
LatencySpecificPair ==
    /\ runner = "latency" /\ pc = "run" /\ ~all_regions
    /\ BothRegionsGiven
    /\ LET source_ips == instances[source_region][ip_type]
           target_ips == instances[target_region][ip_type]
       IN  IF {source_region, target_region} \ DOMAIN instances # {}
           THEN /\ pc' = "raised"
                /\ UNCHANGED <<results, attempts, retval>>
           ELSE
           IF source_ips = <<>> \/ target_ips = <<>>
           THEN /\ pc' = "done"
                /\ retval' = None
                /\ UNCHANGED <<results, attempts>>
           ELSE /\ PingFrom("specific", SpecificSiteArgs, source_region, target_region,
                            Label(source_region, 0), Label(target_region, 0),
                            source_ips[1], target_ips[1])
                /\ pc' = "summary"
                /\ UNCHANGED retval
    /\ UNCHANGED <<src_i, dest_i, intra_ij, warnings, summary, runnerFrame>>

\* A variant of the invalid-arguments branch that goes on to the summary
\* instead of returning None.
LatencyInvalidArguments_fallthrough ==
    /\ runner = "latency" /\ pc = "run" /\ ~all_regions
    /\ ~(source_region # None /\ target_region # None)
    /\ pc' = "summary"
    /\ UNCHANGED <<src_i, dest_i, intra_ij, results, attempts, warnings, summary,
                   retval, runnerFrame>>

\* all_regions false and a region missing (lines 239-241).
LatencyInvalidArguments ==
    /\ runner = "latency" /\ pc = "run" /\ ~all_regions
    /\ ~BothRegionsGiven
    /\ pc' = "done"
    /\ retval' = None
    /\ UNCHANGED <<src_i, dest_i, intra_ij, results, attempts, warnings, summary,
                   runnerFrame>>

\* write_csv_summary and the return (lines 243-247).
LatencySummary ==
    /\ runner = "latency"
    /\ \/ pc = "summary"
       \/ pc = "run" /\ all_regions /\ src_i > Len(regions)
    /\ summary' = [dir |-> OUTPUT_DIR, rows |-> Len(results)]
    /\ retval' = "latency_results.csv"
    /\ pc' = "done"
    /\ UNCHANGED <<src_i, dest_i, intra_ij, results, attempts, warnings, runnerFrame>>

\* ------------------------------------------------------ point_to_point_test

\* A Python value that ends up as a host in a command line: one address
\* (a string) or a list of addresses.
PyStr(a) == [t |-> "str", v |-> <<a>>]
PyList(l) == [t |-> "list", v |-> l]
IsAddress(x) == x.t = "str"

\* Python's == on such values.
PyEq(x, y) == x.t = y.t /\ x.v = y.v

\* get_ips: all_ips.append(...) adds each region's whole address list as one
\* element (lines 30-35).
get_ips(ip_key, region_list) ==
    [k \in 1..Len(region_list) |-> PyList(instances[region_list[k]][ip_key])]

P2P_DURATION == "10"
P2P_PARALLEL == "1"

\* The stdout of the iperf3 client command (lines 113-115): "" when ssh or
\* the command failed to run, a JSON document with or without an 'error'
\* field, or text that is not JSON. A host that is not one address cannot be
\* reached: ssh to it prints nothing, iperf3 -J to it reports an error.
IperfOutputs(src_ip, dest_ip) ==
    IF ~IsAddress(src_ip) THEN {"empty"}
    ELSE IF ~IsAddress(dest_ip) THEN {"error_json"}
    ELSE {"empty", "error_json", "ok_json", "not_json"}

\* The stderr of the server start (lines 101-103), as bytes: empty when ssh
\* and iperf3 -s -D ran quietly, text otherwise. ssh to a host that is not
\* one address fails with a message.
ServerStderr(dest_ip) ==
    IF IsAddress(dest_ip) THEN {"empty", "text"} ELSE {"text"}

\* The condition of line 104 raises TypeError when stderr_s is not empty:
\* '"bind failed" not in stderr_s' tests a str against bytes.
BindFailedCheckRaises(stderr_s) == stderr_s # "empty"

\* The record appended for one client output (lines 120-180); none for
\* output that does not decode.
P2PRecords(src, src_ip, dest, dest_ip, out) ==
    LET rec(err, mbps) ==
            [source_region |-> src, source_ip |-> src_ip,
             destination_region |-> dest, destination_ip |-> dest_ip,
             protocol |-> "TCP", interval_sec |-> P2P_DURATION,
             parallel_streams |-> P2P_PARALLEL,
             received_mbps |-> mbps, error |-> err]
    IN  CASE out = "empty"      -> <<rec("Client execution failed", "0")>>
          [] out = "error_json" -> <<rec("iperf3 error", "0")>>
          [] out = "ok_json"    -> <<rec(None, "measured")>>
          [] OTHER              -> <<>>

\* The loop "for dest_ip in dest_ips" (lines 92-180) from its k-th element:
\* the tests started and the records appended, given the stderr of each
\* server start and each client's output, and whether the loop was left by
\* the TypeError of line 104.
RECURSIVE P2PTests(_, _, _, _, _, _, _)
P2PTests(src, src_ip, dest, dest_ips, errs, outs, k) ==
    IF k > Len(dest_ips) THEN [tests |-> <<>>, records |-> <<>>, raised |-> FALSE]
    ELSE LET rest == P2PTests(src, src_ip, dest, dest_ips, errs, outs, k + 1)
             dest_ip == dest_ips[k]
             test == [site |-> "p2p", src |-> src, dest |-> dest,
                      call |-> [client_ip |-> src_ip, server_ip |-> dest_ip]]
         IN  IF src = dest /\ PyEq(src_ip, dest_ip)
             THEN rest    \* an instance is not tested against itself
             ELSE IF BindFailedCheckRaises(errs[k])
             THEN [tests |-> <<test>>, records |-> <<>>, raised |-> TRUE]
             ELSE [tests   |-> <<test>> \o rest.tests,
                   records |-> P2PRecords(src, src_ip, dest, dest_ip, outs[k])
                               \o rest.records,
                   raised  |-> rest.raised]

\* target_regions of line 77.
target_regions == IF all_regions THEN regions ELSE <<src_region>>

\* The skip conditions of lines 81-84.
P2PSkip(src, dest) ==
    \/ ~all_regions /\ src # dest
    \/ ~intra_region /\ src = dest

\* The head of the source loop (lines 69-77).
P2PSource ==
    /\ runner = "p2p" /\ pc = "run"
    /\ src_i <= Len(regions)
    /\ LET src_ips == get_ips(ip_type, <<src_region>>)
       IN  IF src_ips = <<>>
           THEN /\ warnings' = Append(warnings, <<src_region, src_region>>)
                /\ src_i' = src_i + 1
                /\ UNCHANGED <<pc, dest_i>>
           ELSE /\ pc' = "dests"
                /\ dest_i' = 1
                /\ UNCHANGED <<src_i, warnings>>
    /\ UNCHANGED <<intra_ij, results, attempts, summary, retval, runnerFrame>>

\* The loops advance to the next destination, or to the next source.
P2PNextDest ==
    IF dest_i < Len(target_regions)
    THEN dest_i' = dest_i + 1 /\ UNCHANGED <<pc, src_i>>
    ELSE pc' = "run" /\ src_i' = src_i + 1 /\ dest_i' = 1

\* One iteration of "for dest_region in target_regions" (lines 79-180). The
\* TypeError of line 104 is not caught: after the cleanup of the finally
\* clause it ends the runner.
P2PDest ==
    /\ runner = "p2p" /\ pc = "dests"
    /\ LET src_ip == get_ips(ip_type, <<src_region>>)[1]
           dest == target_regions[dest_i]
           dest_ips == get_ips(ip_type, <<dest>>)
       IN  IF P2PSkip(src_region, dest)
           THEN UNCHANGED <<results, attempts, warnings>> /\ P2PNextDest
           ELSE IF dest_ips = <<>>
           THEN /\ warnings' = Append(warnings, <<src_region, dest>>)
                /\ UNCHANGED <<results, attempts>>
                /\ P2PNextDest
           ELSE \E errs \in [1..Len(dest_ips) -> {"empty", "text"}],
                   outs \in [1..Len(dest_ips) ->
                               {"empty", "error_json", "ok_json", "not_json"}] :
                  /\ \A k \in 1..Len(dest_ips) :
                        /\ errs[k] \in ServerStderr(dest_ips[k])
                        /\ outs[k] \in IperfOutputs(src_ip, dest_ips[k])
                  /\ LET run == P2PTests(src_region, src_ip, dest, dest_ips,
                                         errs, outs, 1)
                     IN  /\ attempts' = attempts \o run.tests
                         /\ results' = results \o run.records
                         /\ IF run.raised
                            THEN pc' = "raised" /\ UNCHANGED <<src_i, dest_i>>
                            ELSE P2PNextDest
                  /\ UNCHANGED warnings
    /\ UNCHANGED <<intra_ij, summary, retval, runnerFrame>>

\* The final cleanup and the CSV (lines 186-199).
P2PFinish ==
    /\ runner = "p2p" /\ pc = "run"
    /\ src_i > Len(regions)
    /\ pc' = "done"
    /\ IF results # <<>>
       THEN /\ summary' = [dir |-> OUTPUT_DIR, rows |-> Len(results)]
            /\ retval' = "p2p_results.csv"
       ELSE UNCHANGED <<summary, retval>>
    /\ UNCHANGED <<src_i, dest_i, intra_ij, results, attempts, warnings, runnerFrame>>

\* ------------------------------------------------------ udp_multicast_test

\* get_ips of udp_multicast_test.py (lines 15-28): the addresses of the
\* regions, one after the other (extend), empty ones filtered out.
RECURSIVE udp_get_ips(_, _)
udp_get_ips(ip_key, region_list) ==
    IF region_list = <<>> THEN <<>>
    ELSE (IF Head(region_list) \in DOMAIN instances
          THEN instances[Head(region_list)][ip_key] ELSE <<>>)
         \o udp_get_ips(ip_key, Tail(region_list))

\* The server region in effect (lines 68-76): the one given, or the first
\* region of the directory when the one given is not listed.
UdpServerRegion ==
    IF server_region \in DOMAIN instances THEN server_region ELSE regions[1]

\* client_ips as it would be without the test "region != server_region".
UdpClients_with_server ==
    LET others == SelectSeq(regions, LAMBDA r : udp_get_ips(ip_type, <<r>>) # <<>>)
    IN  [k \in 1..Len(others) |->
            [region |-> others[k], ip |-> udp_get_ips(ip_type, <<others[k]>>)[1]]]

\* client_ips (lines 86-92): the first address of each other region that has
\* one, in the order of the directory; the region is kept beside it.
UdpClients ==
    LET others == SelectSeq(regions, LAMBDA r :
                      r # UdpServerRegion /\ udp_get_ips(ip_type, <<r>>) # <<>>)
    IN  [k \in 1..Len(others) |->
            [region |-> others[k], ip |-> udp_get_ips(ip_type, <<others[k]>>)[1]]]

\* main (lines 202-233) calls run_udp_test without ssh_user: TypeError.
UdpMain ==
    /\ runner = "udp" /\ pc = "main"
    /\ pc' = "raised"
    /\ UNCHANGED <<src_i, dest_i, intra_ij, results, attempts, warnings, summary,
                   retval, runnerFrame>>

\* run_udp_test up to the client loop (lines 44-120): None when the server
\* region has no address; the result of the server start is only logged.
UdpStart ==
    /\ runner = "udp" /\ pc = "run"
    /\ IF udp_get_ips(ip_type, <<UdpServerRegion>>) = <<>>
       THEN pc' = "done" /\ retval' = None /\ UNCHANGED warnings
       ELSE /\ pc' = "clients"
            /\ warnings' = IF UdpClients = <<>>
                           THEN Append(warnings, <<UdpServerRegion, UdpServerRegion>>)
                           ELSE warnings
            /\ UNCHANGED retval
    /\ src_i' = 1
    /\ UNCHANGED <<dest_i, intra_ij, results, attempts, summary, runnerFrame>>

\* One iteration of "for i, client_ip in enumerate(client_ips)" (lines
\* 123-182): the client command and the scp either both succeed, and a
\* success record is appended, or one raises, and a failed record is.
UdpClient ==
    /\ runner = "udp" /\ pc = "clients"
    /\ src_i <= Len(UdpClients)
    /\ LET client == UdpClients[src_i]
           server_ip == udp_get_ips(ip_type, <<UdpServerRegion>>)[1]
       IN  /\ attempts' = Append(attempts,
                              [site |-> "udp", src |-> client.region,
                               dest |-> UdpServerRegion,
                               call |-> [client_ip |-> client.ip, server_ip |-> server_ip]])
           /\ \E ok \in BOOLEAN :
                 results' = Append(results,
                                [client_ip |-> client.ip, server_ip |-> server_ip,
                                 result_file |-> IF ok THEN <<server_ip, client.ip>> ELSE <<>>,
                                 status |-> IF ok THEN "success" ELSE "failed"])
    /\ src_i' = src_i + 1
    /\ UNCHANGED <<pc, dest_i, intra_ij, warnings, summary, retval, runnerFrame>>

\* The server is stopped and the results list returned (lines 184-197).
UdpFinish ==
    /\ runner = "udp" /\ pc = "clients"
    /\ src_i > Len(UdpClients)
    /\ pc' = "done"
    /\ retval' = "results"
    /\ UNCHANGED <<src_i, dest_i, intra_ij, results, attempts, warnings, summary,
                   runnerFrame>>

\* -------------------------------------------------------------- format_data

\* Largest DataFrame handed to the matrix functions.
MaxRecords == 3

\* A float: an exact fraction num/den, or NaN (den = 0).
NaN == [num |-> 0, den |-> 0]
Val(v) == [num |-> v, den |-> 1]
notna(x) == x.den # 0

\* (x + y) / 2 on floats.
HalfSum(x, y) == [num |-> x.num * y.den + y.num * x.den, den |-> 2 * x.den * y.den]

\* A matrix: None, or a DataFrame over index x index.
NoMatrix == [none |-> TRUE, index |-> {}, cell |-> [p \in {} |-> NaN]]
EmptyFrame(index) == [p \in index \X index |-> NaN]

\* The loop "for _, row in df.iterrows()" of create_latency_matrix and
\* create_p2p_bandwidth_matrix, from row k: a cell that already holds a value
\* becomes (cell + value) / 2, an empty cell takes the value, and a NaN value
\* is passed over.
RECURSIVE FillRows(_, _, _, _)
FillRows(cell, rows, metric, k) ==
    IF k > Len(rows) THEN cell
    ELSE LET source == rows[k].source_region
             target == rows[k].target_region
             value == rows[k][metric]
             filled == IF notna(value)
                       THEN [cell EXCEPT ![<<source, target>>] =
                                IF notna(cell[<<source, target>>])
                                THEN HalfSum(cell[<<source, target>>], value)
                                ELSE value]
                       ELSE cell
         IN  FillRows(filled, rows, metric, k + 1)

\* create_latency_matrix (lines 39-76).
create_latency_matrix(latency_df) ==
    IF latency_df = <<>> THEN NoMatrix
    ELSE LET all == {latency_df[k].source_region : k \in 1..Len(latency_df)}
                    \cup {latency_df[k].target_region : k \in 1..Len(latency_df)}
         IN  [none |-> FALSE, index |-> all,
              cell |-> FillRows(EmptyFrame(all), latency_df, "avg_latency_ms", 1)]

\* create_p2p_bandwidth_matrix (lines 79-108).
create_p2p_bandwidth_matrix(p2p_df) ==
    IF p2p_df = <<>> THEN NoMatrix
    ELSE LET all == {p2p_df[k].source_region : k \in 1..Len(p2p_df)}
                    \cup {p2p_df[k].target_region : k \in 1..Len(p2p_df)}
         IN  [none |-> FALSE, index |-> all,
              cell |-> FillRows(EmptyFrame(all), p2p_df, "bandwidth_mbps", 1)]

\* Sum and count of the non-NaN values of one column over the rows chosen.
RECURSIVE SumNotNa(_, _, _, _)
SumNotNa(rows, keep(_), column, k) ==
    IF k > Len(rows) THEN [sum |-> 0, count |-> 0]
    ELSE LET rest == SumNotNa(rows, keep, column, k + 1)
             x == rows[k][column]
         IN  IF keep(rows[k]) /\ notna(x)
             THEN \* values are whole numbers here (den = 1)
                  [sum |-> rest.sum + x.num, count |-> rest.count + 1]
             ELSE rest

\* groupby([...]).mean() for one group: the mean of the non-NaN values.
GroupMean(rows, keep(_), column) ==
    LET t == SumNotNa(rows, keep, column, 1)
    IN  IF t.count = 0 THEN NaN ELSE [num |-> t.sum, den |-> t.count]

\* The label pandas reads as a missing client_region.
MissingLabel == "nan"

\* create_udp_matrices (lines 111-153): rows without client_region are
\* dropped, the rest grouped by (server_region, client_region) and averaged.
create_udp_matrices(udp_df) ==
    LET kept == SelectSeq(udp_df, LAMBDA row : row.client_region # MissingLabel)
        all == {kept[k].server_region : k \in 1..Len(kept)}
               \cup {kept[k].client_region : k \in 1..Len(kept)}
        groups == {<<kept[k].server_region, kept[k].client_region>> : k \in 1..Len(kept)}
        mean(p, column) ==
            IF p \in groups
            THEN GroupMean(kept, LAMBDA row : row.server_region = p[1]
                                              /\ row.client_region = p[2], column)
            ELSE NaN
    IN  IF udp_df = <<>> \/ kept = <<>>
        THEN [bandwidth |-> NoMatrix, loss |-> NoMatrix]
        ELSE [bandwidth |-> [none |-> FALSE, index |-> all,
                             cell |-> [p \in all \X all |-> mean(p, "bandwidth_mbps")]],
              loss      |-> [none |-> FALSE, index |-> all,
                             cell |-> [p \in all \X all |-> mean(p, "lost_percent")]]]

\* _generate_markdown_report, latency section (lines 177-181).
CreateLatencyMatrix ==
    /\ mx_pc = "ready" /\ df_kind = "latency"
    /\ matrix' = create_latency_matrix(df)
    /\ mx_pc' = "done"
    /\ UNCHANGED <<df_kind, df, loss_matrix, matrixFrame>>

\* _generate_markdown_report, point-to-point section (lines 190-194).
CreateP2PBandwidthMatrix ==
    /\ mx_pc = "ready" /\ df_kind = "p2p"
    /\ matrix' = create_p2p_bandwidth_matrix(df)
    /\ mx_pc' = "done"
    /\ UNCHANGED <<df_kind, df, loss_matrix, matrixFrame>>

\* _generate_markdown_report, UDP section (lines 202-208).
CreateUdpMatrices ==
    /\ mx_pc = "ready" /\ df_kind = "udp"
    /\ matrix' = create_udp_matrices(df).bandwidth
    /\ loss_matrix' = create_udp_matrices(df).loss
    /\ mx_pc' = "done"
    /\ UNCHANGED <<df_kind, df, matrixFrame>>

\* The DataFrames the matrix functions are applied to.
MatrixLabels == {"eu-west-2", "us-east-1"}
Metrics == {Val(100), Val(200), NaN}
LossValues == {Val(0), Val(10)}
SeqsUpTo(S, n) == UNION {[1..m -> S] : m \in 0..n}

LatencyRows == [source_region : MatrixLabels, target_region : MatrixLabels,
                avg_latency_ms : Metrics]
P2PRows == [source_region : MatrixLabels, target_region : MatrixLabels,
            bandwidth_mbps : Metrics]
UdpRows == [server_region : MatrixLabels, client_region : MatrixLabels,
            bandwidth_mbps : Metrics, lost_percent : LossValues]

InitMatrixState ==
    /\ mx_pc = "ready"
    /\ matrix = NoMatrix
    /\ loss_matrix = NoMatrix

InitMatrix ==
    /\ \/ df_kind = "latency" /\ df \in SeqsUpTo(LatencyRows, MaxRecords)
       \/ df_kind = "p2p" /\ df \in SeqsUpTo(P2PRows, MaxRecords)
       \/ df_kind = "udp" /\ df \in SeqsUpTo(UdpRows, MaxRecords)
    /\ InitMatrixState

IdleMatrix ==
    /\ df_kind = "idle" /\ df = <<>> /\ mx_pc = "idle"
    /\ matrix = NoMatrix /\ loss_matrix = NoMatrix

NextMatrix ==
    \/ CreateLatencyMatrix
    \/ CreateP2PBandwidthMatrix
    \/ CreateUdpMatrices

\* ---------------------------------------------- collect_results / parse_data

\* Most result files of one kind in the data directory.
MaxResultFiles == 2

\* key in d, for a JSON object or dict d.
Has(d, key) == key \in DOMAIN d

\* dict.update: the entries of m over those of old.
Update(old, m) ==
    [x \in DOMAIN old \cup DOMAIN m |-> IF x \in DOMAIN m THEN m[x] ELSE old[x]]
EmptyMap == [x \in {} |-> ""]

\* parse_iperf3_result (lines 14-65): the status and metrics of one result
\* file. A document with 'end' and an error is an error, one with
\* end.sum_received a TCP result, one with end.sum a UDP result; anything
\* else has status unknown. The region fields are set later, if at all.
parse_iperf3_result(file) ==
    CASE file.data.shape = "error" ->
           [file |-> file.name, status |-> "error"]
      [] file.data.shape = "tcp" ->
           [file |-> file.name, status |-> "success", protocol |-> "TCP",
            bits_per_second |-> file.data.bits_per_second]
      [] file.data.shape = "udp" ->
           [file |-> file.name, status |-> "success", protocol |-> "UDP",
            bits_per_second |-> file.data.bits_per_second]
      [] OTHER ->
           [file |-> file.name, status |-> "unknown"]

\* extract_ip_info (lines 208-217): the two addresses of a UDP file name.
extract_ip_info(name) == [server_ip |-> name.server_ip, client_ip |-> name.client_ip]

\* The IP -> region map of lines 96-118, from summary file k on: a summary
\* with 'ip_to_region_map' updates the map with it; an old one gives the
\* server's entry and one entry per result that has a client region.
RECURSIVE BuildIpMap(_, _, _)
BuildIpMap(map, summaries, k) ==
    IF k > Len(summaries) THEN map
    ELSE LET sm == summaries[k]
             withServer == IF Has(sm, "server_ip") /\ Has(sm, "server_region")
                           THEN Update(map, (sm.server_ip :> sm.server_region))
                           ELSE map
             clients == {i \in 1..Len(sm.results) :
                            Has(sm.results[i], "client_ip") /\ i <= Len(sm.client_regions)}
             old == [x \in DOMAIN withServer \cup {sm.results[i].client_ip : i \in clients} |->
                        IF \E i \in clients : sm.results[i].client_ip = x
                        THEN LET last == CHOOSE i \in clients :
                                            /\ sm.results[i].client_ip = x
                                            /\ \A j \in clients :
                                                  sm.results[j].client_ip = x => j <= i
                             IN  sm.client_regions[last]
                        ELSE withServer[x]]
         IN  BuildIpMap(IF Has(sm, "ip_to_region_map")
                        THEN Update(map, sm.ip_to_region_map)
                        ELSE old,
                        summaries, k + 1)

\* The file name -> region pair map of lines 120-133.
RECURSIVE BuildP2PMap(_, _, _)
BuildP2PMap(map, tests, k) ==
    IF k > Len(tests) THEN map
    ELSE BuildP2PMap(Update(map, (tests[k].result_file :>
                                    [source_region |-> tests[k].source_region,
                                     target_region |-> tests[k].target_region])),
                     tests, k + 1)

RECURSIVE BuildP2PMapFiles(_, _, _)
BuildP2PMapFiles(map, summaries, k) ==
    IF k > Len(summaries) THEN map
    ELSE BuildP2PMapFiles(BuildP2PMap(map, summaries[k], 1), summaries, k + 1)

\* One point-to-point result (lines 139-150): the parsed file, with the
\* regions of the summary entry of its file name when there is one.
CollectP2P(file, p2p_region_map) ==
    LET result == parse_iperf3_result(file)
    IN  IF file.name \in DOMAIN p2p_region_map
        THEN Update(result, p2p_region_map[file.name])
        ELSE result

\* One UDP result (lines 156-183): the parsed file with the region fields
\* of its JSON document; when one of the two is missing, each address of the
\* file name that the IP map knows sets its side's region.
CollectUdp(file, ip_to_region_map) ==
    LET result == parse_iperf3_result(file)
        withServer == IF Has(file.data, "server_region")
                      THEN Update(result, ("server_region" :> file.data.server_region))
                      ELSE result
        embedded == IF Has(file.data, "client_region")
                    THEN Update(withServer, ("client_region" :> file.data.client_region))
                    ELSE withServer
        ip_info == extract_ip_info(file.name)
        mappedServer == IF ip_info.server_ip \in DOMAIN ip_to_region_map
                        THEN Update(embedded,
                                 ("server_region" :> ip_to_region_map[ip_info.server_ip]))
                        ELSE embedded
    IN  IF ~Has(embedded, "server_region") \/ ~Has(embedded, "client_region")
        THEN IF ip_info.client_ip \in DOMAIN ip_to_region_map
             THEN Update(mappedServer,
                      ("client_region" :> ip_to_region_map[ip_info.client_ip]))
             ELSE mappedServer
        ELSE embedded

\* The result files of a glob list: those without 'summary' in their path.
ResultFiles(globbed) == SelectSeq(globbed, LAMBDA f : ~f.is_summary)

\* collect_results (lines 84-205).
CollectResults ==
    /\ rc_pc = "collect"
    /\ LET ip_to_region_map == BuildIpMap(EmptyMap, data_dir.udp_summary_files, 1)
           p2p_region_map == BuildP2PMapFiles(EmptyMap, data_dir.p2p_summary_files, 1)
           p2p == ResultFiles(data_dir.p2p_files)
           udp == ResultFiles(data_dir.udp_files)
       IN  all_results' =
             [point_to_point_tests |->
                 [k \in 1..Len(p2p) |-> CollectP2P(p2p[k], p2p_region_map)],
              udp_multicast_tests |->
                 [k \in 1..Len(udp) |-> CollectUdp(udp[k], ip_to_region_map)]]
    /\ rc_pc' = "parse"
    /\ UNCHANGED <<data_dir, matrixVars, runnerVars, mainVars, otherVars>>

\* test.get(key, 'unknown').
GetOrUnknown(test, key) == IF Has(test, key) THEN test[key] ELSE "unknown"

\* bits per second to Mbps: / 1000000.
ToMbps(bits) == Val(bits \div 1000000)

\* A variant of parse_p2p_results that keeps only the records with both
\* regions resolved.
parse_p2p_results_resolved_only(p2p_tests) ==
    LET ok == SelectSeq(p2p_tests, LAMBDA test :
                  /\ test.status = "success"
                  /\ Has(test, "source_region") /\ Has(test, "target_region"))
    IN  [k \in 1..Len(ok) |->
            [source_region |-> ok[k].source_region,
             target_region |-> ok[k].target_region,
             bandwidth_mbps |-> ToMbps(ok[k].bits_per_second),
             file |-> ok[k].file]]

\* parse_p2p_results (lines 22-46): one row per successful test.
parse_p2p_results(p2p_tests) ==
    LET ok == SelectSeq(p2p_tests, LAMBDA test : test.status = "success")
    IN  [k \in 1..Len(ok) |->
            [source_region |-> GetOrUnknown(ok[k], "source_region"),
             target_region |-> GetOrUnknown(ok[k], "target_region"),
             bandwidth_mbps |-> ToMbps(ok[k].bits_per_second),
             file |-> ok[k].file]]

\* parse_udp_results (lines 48-84): one row per successful test.
parse_udp_results(udp_tests) ==
    LET ok == SelectSeq(udp_tests, LAMBDA test : test.status = "success")
    IN  [k \in 1..Len(ok) |->
            [server_region |-> GetOrUnknown(ok[k], "server_region"),
             client_region |-> GetOrUnknown(ok[k], "client_region"),
             bandwidth_mbps |-> ToMbps(ok[k].bits_per_second),
             lost_percent |-> Val(0),
             file |-> ok[k].file]]

\* parse_data.main, point-to-point part (lines 99-106).
ParseP2PResults ==
    /\ rc_pc = "parse" /\ data_dir.scenario = "p2p"
    /\ df' = parse_p2p_results(all_results.point_to_point_tests)
    /\ df_kind' = "p2p"
    /\ mx_pc' = "ready"
    /\ rc_pc' = "parsed"
    /\ UNCHANGED <<data_dir, all_results, matrix, loss_matrix, runnerVars, mainVars, otherVars>>

\* parse_data.main, UDP part (lines 108-115).
ParseUdpResults ==
    /\ rc_pc = "parse" /\ data_dir.scenario = "udp"
    /\ df' = parse_udp_results(all_results.udp_multicast_tests)
    /\ df_kind' = "udp"
    /\ mx_pc' = "ready"
    /\ rc_pc' = "parsed"
    /\ UNCHANGED <<data_dir, all_results, matrix, loss_matrix, runnerVars, mainVars, otherVars>>

\* The data directories collect_results is run on.
ServerIp == "10.0.1.1"
ClientIp == "10.0.2.1"
MapRegions == {"eu-west-2", "us-east-1"}
BitsValues == {100000000, 200000000}

PartialMaps(D, R) == UNION {[S -> R] : S \in SUBSET D}

\* UDP result files: iperf3 documents, with or without region fields.
UdpBodies ==
    [shape : {"udp"}, bits_per_second : BitsValues] \cup [shape : {"error"}]
UdpData ==
    {Update(Update(body, s), c) :
        body \in UdpBodies,
        s \in PartialMaps({"server_region"}, {"us-east-1"}),
        c \in PartialMaps({"client_region"}, {"eu-west-2"})}
UdpFileLists ==
    {[k \in 1..Len(d) |->
        [name |-> [server_ip |-> ServerIp, client_ip |-> ClientIp, stamp |-> k],
         is_summary |-> FALSE, data |-> d[k]]] : d \in SeqsUpTo(UdpData, MaxResultFiles)}

\* The UDP summary file of the directory, in the current or the old layout.
UdpSummaries ==
    [ip_to_region_map : PartialMaps({ServerIp, ClientIp}, MapRegions)]
    \cup [server_ip : {ServerIp}, server_region : MapRegions,
          results : {<<[client_ip |-> ClientIp]>>},
          client_regions : {<<>>} \cup {<<r>> : r \in MapRegions}]

\* Point-to-point result files and the summary naming some of them.
P2PNames == <<"p2p_a.json", "p2p_b.json", "p2p_c.json", "p2p_d.json">>
P2PData ==
    [shape : {"tcp"}, bits_per_second : BitsValues]
    \cup [shape : {"error", "other"}]
P2PFileLists ==
    {[k \in 1..Len(d) |-> [name |-> P2PNames[k], is_summary |-> FALSE, data |-> d[k]]] :
        d \in SeqsUpTo(P2PData, MaxResultFiles)}
P2PSummaryTests ==
    [result_file : {P2PNames[1], P2PNames[2]},
     source_region : MapRegions, target_region : MapRegions]
P2PSummaries == SeqsUpTo(P2PSummaryTests, 1)
SummaryFile(name) == [name |-> name, is_summary |-> TRUE, data |-> [shape |-> "other"]]

InitReconcile ==
    /\ \/ \E fs \in UdpFileLists, sm \in UdpSummaries :
            data_dir = [scenario |-> "udp",
                        udp_files |-> fs \o <<SummaryFile("udp_multicast_summary.json")>>,
                        udp_summary_files |-> <<sm>>,
                        p2p_files |-> <<>>, p2p_summary_files |-> <<>>]
       \/ \E fs \in P2PFileLists, sm \in P2PSummaries :
            data_dir = [scenario |-> "p2p",
                        udp_files |-> <<>>, udp_summary_files |-> <<>>,
                        p2p_files |-> fs \o <<SummaryFile("p2p_test_summary.json")>>,
                        p2p_summary_files |-> <<sm>>]
    /\ rc_pc = "collect"
    /\ all_results = <<>>
    /\ df_kind = "idle" /\ df = <<>> /\ mx_pc = "idle"
    /\ matrix = NoMatrix /\ loss_matrix = NoMatrix

NextReconcile ==
    \/ CollectResults
    \/ ParseP2PResults
    \/ ParseUdpResults
    \/ CreateP2PBandwidthMatrix
    \/ CreateUdpMatrices

\* ------------------------------------------------------------ run_benchmark

\* One run_command call: the command and whether it exited with status 0
\* (run_command returns its stdout then, and None otherwise, lines 19-33).
Run(cmd, ok) == [cmd |-> cmd, ok |-> ok]

\* config.get(key, default).
ConfigGet(cfg, key, default) == IF Has(cfg, key) THEN cfg[key] ELSE default

\* What "terraform output -json" gives: nothing (the command failed or
\* printed nothing), a document without the instance outputs, or the
\* outputs that the state holds.
TerraformOutputs == {"none", "no_outputs", "outputs"}

\* setup_terraform (lines 36-273) on the files fs, the commands having the
\* outcomes out: False when the public key is missing or empty after the key
\* step, or when the output of "terraform output -json" is empty or has no
\* instance outputs; the results of generate_terraform, terraform init and
\* terraform apply are not looked at.
setup_terraform(fs, out) ==
    LET keygen == fs.ssh_key = "missing"
        pub_key == IF keygen THEN (IF out.keygen THEN "ok" ELSE "missing") ELSE fs.ssh_key
        first == <<Run("generate_terraform", out.generate)>>
                 \o (IF keygen THEN <<Run("ssh-keygen", out.keygen)>> ELSE <<>>)
        deploy == <<Run("terraform init", out.init),
                    Run("terraform apply", out.apply),
                    Run("terraform output", out.output # "none")>>
    IN  IF pub_key # "ok"
        THEN [ret |-> FALSE, commands |-> first,
              files |-> [fs EXCEPT !.ssh_key = pub_key]]
        ELSE [ret |-> out.output = "outputs", commands |-> first \o deploy,
              files |-> [fs EXCEPT !.ssh_key = pub_key,
                                   !.instance_info = @ \/ out.output = "outputs"]]

\* install_iperf3 (lines 276-316): False only when reading the instance
\* info raises; the results of the scp and ssh commands are not looked at.
install_iperf3(fs, ok) ==
    IF fs.instance_info
    THEN [ret |-> TRUE, commands |-> <<Run("install_iperf3", ok)>>]
    ELSE [ret |-> FALSE, commands |-> <<>>]

\* run_network_tests as it would be were a test type started only when the
\* command of the one before it succeeded.
run_network_tests_until_failure(cfg, fs, out) ==
    LET latency == IF ConfigGet(cfg, "run_latency_tests", TRUE)
                   THEN <<Run("latency_test", out.latency)>> ELSE <<>>
        p2p == IF ConfigGet(cfg, "run_p2p_tests", TRUE) /\ (latency = <<>> \/ out.latency)
               THEN <<Run("point_to_point_test", out.p2p)>> ELSE <<>>
        udp == IF /\ ConfigGet(cfg, "run_udp_tests", TRUE)
                  /\ (latency = <<>> \/ out.latency) /\ (p2p = <<>> \/ out.p2p)
               THEN <<Run("udp_multicast_test", out.udp)>> ELSE <<>>
    IN  IF ConfigGet(cfg, "run_udp_tests", TRUE) /\ ~fs.instance_info
        THEN [ret |-> FALSE, raised |-> TRUE, commands |-> latency \o p2p]
        ELSE [ret |-> TRUE, raised |-> FALSE, commands |-> latency \o p2p \o udp]

\* run_network_tests (lines 319-391): each enabled test is one command whose
\* result is not looked at; the UDP part opens the instance info outside any
\* try, so a missing file raises out of the function. Otherwise True.
run_network_tests(cfg, fs, out) ==
    LET latency == IF ConfigGet(cfg, "run_latency_tests", TRUE)
                   THEN <<Run("latency_test", out.latency)>> ELSE <<>>
        p2p == IF ConfigGet(cfg, "run_p2p_tests", TRUE)
               THEN <<Run("point_to_point_test", out.p2p)>> ELSE <<>>
        udp == IF ConfigGet(cfg, "run_udp_tests", TRUE)
               THEN <<Run("udp_multicast_test", out.udp)>> ELSE <<>>
    IN  IF ConfigGet(cfg, "run_udp_tests", TRUE) /\ ~fs.instance_info
        THEN [ret |-> FALSE, raised |-> TRUE, commands |-> latency \o p2p]
        ELSE [ret |-> TRUE, raised |-> FALSE, commands |-> latency \o p2p \o udp]

\* An output line as its words. "needle in line" (lines 408, 437-442) is a
\* case-sensitive substring test: the words of the needle, one after the
\* other, in the line.
Contains(line, needle) ==
    \E i \in 1..(Len(line) - Len(needle) + 1) :
        SubSeq(line, i, i + Len(needle) - 1) = needle

\* line.split("saved to")[-1].strip(): what follows the last "saved to".
AfterSavedTo(line) ==
    LET at == {i \in 1..(Len(line) - 1) : line[i] = "saved" /\ line[i + 1] = "to"}
        last == CHOOSE i \in at : \A j \in at : j <= i
    IN  SubSeq(line, last + 2, Len(line))

\* The path process_test_results takes from the output of a command (lines
\* 404-410 and 432-442), and no path when no line holds the needle. The
\* code tests "if output:" and "if p2p_csv:", to which None and an empty
\* value are the same: both are <<>> here.
ReportedPath(output, needle) ==
    LET hits == SelectSeq(output, LAMBDA line : Contains(line, needle))
    IN  IF hits = <<>> THEN <<>> ELSE AfterSavedTo(hits[Len(hits)])

\* What collect_results.py prints when it succeeds (lines 204-205), and what
\* run_command returns of it.
CollectedPath == "collected_results_now.json"
CollectorOutput(ok) ==
    IF ok
    THEN << <<"test", "results", "collected", "and", "saved", "to", ":", CollectedPath>>,
            <<"total", "p2p", "tests", "and", "udp", "tests">> >>
    ELSE <<>>

\* What parse_data.py prints when it succeeds on results of both kinds
\* (lines 104, 113, 157).
ParserOutput(ok) ==
    IF ok
    THEN << <<"p2p", "test", "results", "saved", "to", "p2p_results_now.csv">>,
            <<"udp", "test", "results", "saved", "to", "udp_results_now.csv">>,
            <<"results", "summary", "saved", "to", "results_summary_now.json">> >>
    ELSE <<>>

\* process_test_results as it would be were the resources destroyed before
\* the results are collected.
process_test_results_after_destroy(fs, out) ==
    [ret |-> fs.collected \/ out.collect,
     commands |-> <<Run("terraform destroy", TRUE), Run("collect_results", out.collect)>>,
     files |-> [fs EXCEPT !.collected = @ \/ out.collect]]

\* process_test_results (lines 394-462): the collector's output never holds
\* the line looked for, so the latest collected_results_ file of the data
\* directory is used, and False is returned when there is none. The parse
\* result is not looked at beyond the paths searched for in its output (lines
\* 436-442), which decide the arguments of format_data (lines 448-452);
\* format_data is called without its required arguments, fails, and its
\* result is not looked at either.
process_test_results(fs, out) ==
    LET collected == fs.collected \/ out.collect
        collect == <<Run("collect_results", out.collect)>>
        reported == ReportedPath(CollectorOutput(out.collect),
                                 <<"Results", "collected", "and", "saved", "to">>)
        exists == out.collect /\ reported = <<CollectedPath>>
        collected_file == IF reported # <<>> /\ exists THEN "reported" ELSE "latest"
        p2p_csv == ReportedPath(ParserOutput(out.parse),
                                <<"Point-to-point", "test", "results", "saved", "to">>)
        udp_csv == ReportedPath(ParserOutput(out.parse),
                                <<"UDP", "test", "results", "saved", "to">>)
    IN  IF ~collected
        THEN [ret |-> FALSE, commands |-> collect, files |-> fs]
        ELSE [ret |-> TRUE,
              commands |-> collect
                           \o <<[cmd |-> "parse_data", ok |-> out.parse,
                                 input |-> collected_file],
                                [cmd |-> "format_data", ok |-> FALSE,
                                 p2p_csv |-> p2p_csv, udp_csv |-> udp_csv]>>,
              files |-> [fs EXCEPT !.collected = TRUE]]

\* Lines 715-717: the configuration file when it exists, {} otherwise, with
\* cleanup_resources set by --cleanup.
LoadConfig ==
    /\ main_pc = "config"
    /\ LET loaded == IF files.config_exists THEN files.config ELSE EmptyMap
       IN  config' = IF args.cleanup
                     THEN Update(loaded, ("cleanup_resources" :> TRUE))
                     ELSE loaded
    /\ main_pc' = "terraform"
    /\ UNCHANGED <<args, files, commands, failed, exit_code, runnerVars, matrixVars, reconcileVars, otherVars>>

\* A stage of main that returned a false value: return 1 (lines 729-755).
Exit1(stage) ==
    /\ failed' = failed \cup {stage}
    /\ exit_code' = 1
    /\ main_pc' = "done"

\* Lines 727-733.
DeployInstances ==
    /\ main_pc = "terraform" /\ ~args.skip_terraform
    /\ \E out \in [generate : BOOLEAN, keygen : BOOLEAN, init : BOOLEAN,
                   apply : BOOLEAN, output : TerraformOutputs] :
          LET r == setup_terraform(files, out)
          IN  /\ commands' = commands \o r.commands
              /\ files' = r.files
              /\ IF r.ret
                 THEN main_pc' = "install" /\ UNCHANGED <<failed, exit_code>>
                 ELSE Exit1("setup_terraform")
    /\ UNCHANGED <<args, config, runnerVars, matrixVars, reconcileVars, otherVars>>

SkipTerraform ==
    /\ main_pc = "terraform" /\ args.skip_terraform
    /\ main_pc' = "install"
    /\ UNCHANGED <<args, config, files, commands, failed, exit_code,
                   runnerVars, matrixVars, reconcileVars, otherVars>>

\* Lines 735-741.
InstallIperf3 ==
    /\ main_pc = "install" /\ ~args.skip_install
    /\ \E ok \in BOOLEAN :
          LET r == install_iperf3(files, ok)
          IN  /\ commands' = commands \o r.commands
              /\ IF r.ret
                 THEN main_pc' = "tests" /\ UNCHANGED <<failed, exit_code>>
                 ELSE Exit1("install_iperf3")
    /\ UNCHANGED <<args, config, files, runnerVars, matrixVars, reconcileVars, otherVars>>

SkipInstall ==
    /\ main_pc = "install" /\ args.skip_install
    /\ main_pc' = "tests"
    /\ UNCHANGED <<args, config, files, commands, failed, exit_code,
                   runnerVars, matrixVars, reconcileVars, otherVars>>

\* Lines 743-749. An exception leaves main, and the interpreter exits with
\* status 1.
RunNetworkTests ==
    /\ main_pc = "tests" /\ ~args.skip_tests
    /\ \E out \in [latency : BOOLEAN, p2p : BOOLEAN, udp : BOOLEAN] :
          LET r == run_network_tests(config, files, out)
          IN  /\ commands' = commands \o r.commands
              /\ IF r.ret /\ ~r.raised
                 THEN main_pc' = "process" /\ UNCHANGED <<failed, exit_code>>
                 ELSE Exit1("run_network_tests")
    /\ UNCHANGED <<args, config, files, runnerVars, matrixVars, reconcileVars, otherVars>>

SkipTests ==
    /\ main_pc = "tests" /\ args.skip_tests
    /\ main_pc' = "process"
    /\ UNCHANGED <<args, config, files, commands, failed, exit_code,
                   runnerVars, matrixVars, reconcileVars, otherVars>>

\* Lines 751-755.
ProcessTestResults ==
    /\ main_pc = "process"
    /\ \E out \in [collect : BOOLEAN, parse : BOOLEAN] :
          LET r == process_test_results(files, out)
          IN  /\ commands' = commands \o r.commands
              /\ files' = r.files
              /\ IF r.ret
                 THEN main_pc' = "report" /\ UNCHANGED <<failed, exit_code>>
                 ELSE Exit1("process_test_results")
    /\ UNCHANGED <<args, config, runnerVars, matrixVars, reconcileVars, otherVars>>

\* Lines 757-777: the visualizations and the report, whose command results
\* decide nothing, then cleanup_resources (lines 676-686), which runs
\* terraform destroy when the configuration asks for it, and return 0.
ReportAndCleanup ==
    /\ main_pc = "report"
    /\ \E out \in [visualize : BOOLEAN, destroy : BOOLEAN] :
          commands' = commands
                      \o <<Run("generate_visualizations", out.visualize)>>
                      \o (IF ConfigGet(config, "cleanup_resources", FALSE)
                          THEN <<Run("terraform destroy", out.destroy)>> ELSE <<>>)
    /\ exit_code' = 0
    /\ main_pc' = "done"
    /\ UNCHANGED <<args, config, files, failed, runnerVars, matrixVars, reconcileVars, otherVars>>

\* The command lines and the files main can be started with.
ConfigFiles ==
    {EmptyMap} \cup [cleanup_resources : BOOLEAN]
               \cup [cleanup_resources : BOOLEAN, run_p2p_tests : BOOLEAN,
                     run_udp_tests : BOOLEAN]

InitMain ==
    /\ args \in [skip_terraform : BOOLEAN, skip_install : BOOLEAN,
                 skip_tests : BOOLEAN, cleanup : BOOLEAN]
    /\ files \in [config_exists : BOOLEAN, config : ConfigFiles,
                  ssh_key : {"missing", "empty", "ok"},
                  instance_info : BOOLEAN, collected : BOOLEAN]
    /\ ~files.config_exists => files.config = EmptyMap
    /\ config = <<>>
    /\ main_pc = "config"
    /\ commands = <<>>
    /\ failed = {}
    /\ exit_code = None

NextMain ==
    \/ LoadConfig
    \/ DeployInstances
    \/ SkipTerraform
    \/ InstallIperf3
    \/ SkipInstall
    \/ RunNetworkTests
    \/ SkipTests
    \/ ProcessTestResults
    \/ ReportAndCleanup

\* ----------------------------------------------- instance_info.json writers

\* A Python string that is split at "_" is kept as the sequence of its
\* parts: "tokyo" is <<"tokyo">>, "tokyo_2" is <<"tokyo", "2">>, and a region
\* code, which holds no "_", is one part.
\* The most regions a configuration lists.
MaxConfigRegions == 3

\* The region codes a configuration may list.
ConfigRegions == {"ap-northeast-1", "us-west-2", "eu-north-1", "me-central-1"}

\* AWS_REGION_NAMES of Constants.py, on the codes above.
AWS_REGION_NAMES ==
    ("ap-northeast-1" :> "tokyo" @@ "us-west-2" :> "oregon" @@ "eu-north-1" :> "stockholm")

\* region_code.replace("-", "_"), as the parts between the "_".
DashesToUnderscores(region_code) ==
    CASE region_code = "me-central-1" -> <<"me", "central", "1">>

\* get_region_name of generate_terraform.py.
get_region_name(region_code) ==
    IF region_code \in DOMAIN AWS_REGION_NAMES
    THEN <<AWS_REGION_NAMES[region_code]>>
    ELSE DashesToUnderscores(region_code)

\* str(n) for the counts that occur.
Str(n) == CASE n = 2 -> "2" [] n = 3 -> "3" [] n = 4 -> "4" [] n = 5 -> "5"

\* regions[:i + 1].count(region).
RegionCount(regs, i) == Cardinality({j \in 1..i : regs[j] = regs[i]})

\* The key of the i-th region in the instance_public_ips and
\* instance_private_ips outputs: the region name, with "_N" for the N-th
\* occurrence of a region listed more than once.
OutputKey(regs, i) ==
    get_region_name(regs[i])
    \o (IF RegionCount(regs, i) > 1 THEN <<Str(RegionCount(regs, i))>> ELSE <<>>)

\* What "terraform output -json" holds after apply: one item per configured
\* region, with the addresses of that module's instance.
TerraformData(regs) ==
    [i \in 1..Len(regs) |->
        [key |-> OutputKey(regs, i),
         public_ips |-> <<<<"public", i>>>>, private_ips |-> <<<<"private", i>>>>]]

\* An insertion-ordered dict as the sequence of its items: d[key] = value.
DictKeys(d) == {d[k].key : k \in 1..Len(d)}
DictGet(d, key) == d[CHOOSE k \in 1..Len(d) : d[k].key = key]
DictSet(d, item) ==
    IF item.key \in DictKeys(d)
    THEN [k \in 1..Len(d) |-> IF d[k].key = item.key THEN item ELSE d[k]]
    ELSE Append(d, item)

\* region_friendly_names of setup_terraform (lines 207-216), read from the
\* name to the code, on the names that occur; None for a name it lacks.
FriendlyNameToCode(name) ==
    CASE name = "tokyo" -> "ap-northeast-1"
      [] name = "oregon" -> "us-west-2"
      [] OTHER -> None

\* The loop of setup_terraform (lines 219-252) from the k-th output on: the
\* "_N" suffix is cut off, a name without a code is passed over, and the
\* addresses are appended to the entry of the code.
RECURSIVE SetupTerraformInstances(_, _, _)
SetupTerraformInstances(data, k, acc) ==
    IF k > Len(data) THEN acc
    ELSE LET base_region_name == Head(data[k].key)
             aws_region == FriendlyNameToCode(base_region_name)
             old == IF <<aws_region>> \in DictKeys(acc)
                    THEN DictGet(acc, <<aws_region>>)
                    ELSE [key |-> <<aws_region>>, public_ips |-> <<>>, private_ips |-> <<>>]
         IN  IF aws_region = None
             THEN SetupTerraformInstances(data, k + 1, acc)
             ELSE SetupTerraformInstances(data, k + 1,
                      DictSet(acc, [key |-> <<aws_region>>,
                                    public_ips |-> old.public_ips \o data[k].public_ips,
                                    private_ips |-> old.private_ips \o data[k].private_ips]))

\* region_map.get(region_key, region_key) of generate_instance_info (lines
\* 46-58): the code of the four names it knows, the key itself otherwise.
RegionMapGet(region_key) ==
    IF region_key = <<"tokyo">> THEN <<"ap-northeast-1">> ELSE region_key

\* The loop of generate_instance_info (lines 57-86) from the k-th output on:
\* the entry of the mapped key is assigned the addresses of the output.
RECURSIVE GenerateInstanceInfoInstances(_, _, _)
GenerateInstanceInfoInstances(data, k, acc) ==
    IF k > Len(data) THEN acc
    ELSE GenerateInstanceInfoInstances(data, k + 1,
             DictSet(acc, [key |-> RegionMapGet(data[k].key),
                           public_ips |-> data[k].public_ips,
                           private_ips |-> data[k].private_ips]))

\* setup_terraform writes data/instance_info.json (lines 197-258).
WriteBySetupTerraform ==
    /\ writer = "none"
    /\ instance_info' = SetupTerraformInstances(TerraformData(tf_regions), 1, <<>>)
    /\ writer' = "setup_terraform"
    /\ UNCHANGED <<tf_regions, runnerVars, matrixVars, reconcileVars, mainVars, uiVars,
                   scheduleVars>>

\* generate_instance_info writes its output file (lines 12-115).
WriteByGenerateInstanceInfo ==
    /\ writer = "none"
    /\ instance_info' = GenerateInstanceInfoInstances(TerraformData(tf_regions), 1, <<>>)
    /\ writer' = "generate_instance_info"
    /\ UNCHANGED <<tf_regions, runnerVars, matrixVars, reconcileVars, mainVars, uiVars,
                   scheduleVars>>

\* A configuration of one to MaxConfigRegions regions, repeats allowed.
InitDirectoryWriters ==
    /\ tf_regions \in UNION {[1..n -> ConfigRegions] : n \in 1..MaxConfigRegions}
    /\ writer = "none"
    /\ instance_info = <<>>

NextDirectoryWriters ==
    \/ WriteBySetupTerraform
    \/ WriteByGenerateInstanceInfo

\* ------------------------------------------------------------------------ UI

\* The most benchmark runs started from one session, and the most output
\* lines the pipeline process of one run prints.
MaxRuns == 2
MaxLines == 2

\* The items a worker puts on its queue: an output line, the ERROR line, and
\* the None that signals completion.
Line(k) == <<"line", k>>
ErrorLine == <<"ERROR">>
Sentinel == <<"None">>

\* The lines the worker of run r has put so far.
LinesPut(r) == Cardinality({k \in 1..Len(output_queue[r]) : output_queue[r][k][1] = "line"})

\* output_queue.put(item) on the queue of run r.
Put(r, item) == output_queue' = [output_queue EXCEPT ![r] = Append(@, item)]

\* What an action of the UI leaves alone besides its own variables.
uiFrame == <<runnerVars, matrixVars, reconcileVars, mainVars, directoryVars, scheduleVars>>

\* The run button was clicked while no benchmark runs (lines 341-351): an
\* error is shown when credentials or regions are missing, otherwise the
\* session is marked as running. The button is disabled while a benchmark
\* or a cleanup is marked as running (lines 106-107).
RunButton ==
    /\ ui_pc = "idle" /\ ~benchmark_running /\ ~cleanup_running
    /\ run_no < MaxRuns
    /\ \E credentials \in BOOLEAN, aws_regions \in BOOLEAN :
          IF credentials /\ aws_regions
          THEN benchmark_running' = TRUE /\ ui_pc' = "tempfile"
          ELSE UNCHANGED <<benchmark_running, ui_pc>>
    /\ UNCHANGED <<run_no, threads, worker_pc, output_queue, run_output, cleanup_running, command, uiFrame>>

\* The temporary configuration file is written (lines 354-365); an exception
\* takes the handler to its except clause (lines 401-403).
WriteTempConfig ==
    /\ ui_pc = "tempfile"
    /\ \E written \in BOOLEAN :
          IF written
          THEN ui_pc' = "start_worker" /\ UNCHANGED benchmark_running
          ELSE ui_pc' = "idle" /\ benchmark_running' = FALSE
    /\ UNCHANGED <<run_no, threads, worker_pc, output_queue, run_output, cleanup_running, command, uiFrame>>

\* thread = threading.Thread(target=run_script_in_thread, ...); thread.start()
\* (lines 391-394), on the queue this execution of the script created
\* (line 338).
StartWorker ==
    /\ ui_pc = "start_worker"
    /\ run_no' = run_no + 1
    /\ threads' = threads \cup {<<run_no + 1, "run_script_in_thread">>}
    /\ worker_pc' = [worker_pc EXCEPT ![run_no + 1] = "popen"]
    /\ command' = [command EXCEPT ![run_no + 1] = "run_benchmark"]
    /\ ui_pc' = "start_updater"
    /\ UNCHANGED <<benchmark_running, output_queue, run_output, cleanup_running, uiFrame>>

\* The names a statement of UI.py can refer to: its imports and the one
\* function it defines (lines 1-13).
UiNames == {"st", "subprocess", "threading", "tempfile", "queue", "json", "glob", "os",
            "PROJECT_ROOT", "RUNS_DIR", "SCRIPTS_DIR", "TERRAFORM_DIR",
            "DEFAULT_CONFIG_OPTIONS", "verify_aws_credentials", "run_script_in_thread"}

\* ui_update_thread = threading.Thread(target=update_output_area, ...) and
\* its start (lines 396-399). Evaluating a name the module does not bind
\* raises NameError, which the except clause of lines 401-403 handles by
\* ending the running state.
StartUpdater ==
    /\ ui_pc = "start_updater"
    /\ IF "update_output_area" \in UiNames
       THEN /\ threads' = threads \cup {<<run_no, "update_output_area">>}
            /\ UNCHANGED benchmark_running
       ELSE /\ benchmark_running' = FALSE
            /\ UNCHANGED threads
    /\ ui_pc' = "idle"
    /\ UNCHANGED <<run_no, worker_pc, output_queue, run_output, cleanup_running, command, uiFrame>>

\* run_script_in_thread, the Popen call (lines 15-33): when it raises, the
\* except clause puts an ERROR line (lines 41-43).
WorkerPopen(r) ==
    /\ worker_pc[r] = "popen"
    /\ \E started \in BOOLEAN :
          IF started
          THEN /\ worker_pc' = [worker_pc EXCEPT ![r] = "reading"]
               /\ UNCHANGED output_queue
          ELSE /\ worker_pc' = [worker_pc EXCEPT ![r] = "finally"]
               /\ Put(r, ErrorLine)
    /\ UNCHANGED <<ui_pc, benchmark_running, run_no, threads, run_output, cleanup_running, command, uiFrame>>

\* One line of the process's output is put on the queue (lines 34-35).
WorkerLine(r) ==
    /\ worker_pc[r] = "reading"
    /\ LinesPut(r) < MaxLines
    /\ Put(r, Line(LinesPut(r) + 1))
    /\ UNCHANGED <<ui_pc, benchmark_running, run_no, threads, worker_pc, run_output, cleanup_running, command, uiFrame>>

\* The output ended: the process is waited for, and an ERROR line is put
\* when it exited with a non-zero code (lines 36-40); or reading raised, and
\* the except clause puts its ERROR line (lines 41-43).
WorkerWait(r) ==
    /\ worker_pc[r] = "reading"
    /\ \E outcome \in {"exit 0", "exit 1", "raised"} :
          IF outcome # "exit 0" THEN Put(r, ErrorLine) ELSE UNCHANGED output_queue
    /\ worker_pc' = [worker_pc EXCEPT ![r] = "finally"]
    /\ UNCHANGED <<ui_pc, benchmark_running, run_no, threads, run_output, cleanup_running, command, uiFrame>>

\* run_script_in_thread as it would be were None put at the end of the try
\* block: not after an ERROR line.
WorkerSentinel_in_try(r) ==
    /\ worker_pc[r] = "finally"
    /\ LET q == output_queue[r]
       IN  IF q # <<>> /\ q[Len(q)] = ErrorLine
           THEN UNCHANGED output_queue
           ELSE Put(r, Sentinel)
    /\ worker_pc' = [worker_pc EXCEPT ![r] = "finished"]
    /\ UNCHANGED <<ui_pc, benchmark_running, run_no, threads, run_output, cleanup_running, command, uiFrame>>

\* finally: output_queue.put(None) (lines 44-46).
WorkerSentinel(r) ==
    /\ worker_pc[r] = "finally"
    /\ Put(r, Sentinel)
    /\ worker_pc' = [worker_pc EXCEPT ![r] = "finished"]
    /\ UNCHANGED <<ui_pc, benchmark_running, run_no, threads, run_output, cleanup_running, command, uiFrame>>

\* The items of the queue of run r not yet taken off it: run_output holds
\* those that were, as <<run, item>>.
Unread(r) ==
    LET got == Cardinality({k \in 1..Len(run_output) : run_output[k][1] = r})
    IN  SubSeq(output_queue[r], got + 1, Len(output_queue[r]))

\* The inner loop of the cleanup handler (lines 438-442): items are taken
\* off the queue until it is empty or None was taken.
Drain(r) ==
    LET q == Unread(r)
        stop == IF \E k \in 1..Len(q) : q[k] = Sentinel
                THEN CHOOSE k \in 1..Len(q) : q[k] = Sentinel /\ \A j \in 1..(k - 1) : q[j] # Sentinel
                ELSE Len(q)
    IN  [k \in 1..stop |-> <<r, q[k]>>]

\* The cleanup button was clicked (lines 407-434): an error is shown when
\* credentials are missing; otherwise the session is marked as cleaning up
\* and a worker is started that runs terraform destroy. The button is
\* disabled while a benchmark or a cleanup is marked as running (lines
\* 111-112).
CleanupButton ==
    /\ ui_pc = "idle" /\ ~benchmark_running /\ ~cleanup_running
    /\ run_no < MaxRuns
    /\ \E credentials \in BOOLEAN :
          IF credentials
          THEN /\ cleanup_running' = TRUE
               /\ run_no' = run_no + 1
               /\ threads' = threads \cup {<<run_no + 1, "run_script_in_thread">>}
               /\ worker_pc' = [worker_pc EXCEPT ![run_no + 1] = "popen"]
               /\ command' = [command EXCEPT ![run_no + 1] = "terraform destroy"]
               /\ ui_pc' = "cleanup_loop"
          ELSE UNCHANGED <<cleanup_running, run_no, threads, worker_pc, command, ui_pc>>
    /\ UNCHANGED <<benchmark_running, output_queue, run_output, uiFrame>>

\* The loop of the cleanup handler and what follows it (lines 437-450).
\* While the worker is alive or its queue holds items, the items are taken
\* off and st.rerun() is called, which ends this execution of the script:
\* the script runs again from its top with no button clicked. Otherwise the
\* worker is joined and the cleaning-up state ended.
CleanupLoop ==
    /\ ui_pc = "cleanup_loop"
    /\ IF worker_pc[run_no] # "finished" \/ Unread(run_no) # <<>>
       THEN /\ run_output' = run_output \o Drain(run_no)
            /\ UNCHANGED cleanup_running
       ELSE /\ cleanup_running' = FALSE
            /\ UNCHANGED run_output
    /\ ui_pc' = "idle"
    /\ UNCHANGED <<benchmark_running, run_no, threads, worker_pc, output_queue, command, uiFrame>>

\* A session in which the script has run once and no button was clicked.
InitUI ==
    /\ ui_pc = "idle"
    /\ benchmark_running = FALSE
    /\ run_no = 0
    /\ threads = {}
    /\ worker_pc = [r \in 1..MaxRuns |-> "unstarted"]
    /\ output_queue = [r \in 1..MaxRuns |-> <<>>]
    /\ run_output = <<>>
    /\ cleanup_running = FALSE
    /\ command = [r \in 1..MaxRuns |-> None]

NextUI ==
    \/ RunButton
    \/ WriteTempConfig
    \/ StartWorker
    \/ StartUpdater
    \/ CleanupButton
    \/ CleanupLoop
    \/ \E r \in 1..MaxRuns : WorkerPopen(r)
    \/ \E r \in 1..MaxRuns : WorkerLine(r)
    \/ \E r \in 1..MaxRuns : WorkerWait(r)
    \/ \E r \in 1..MaxRuns : WorkerSentinel(r)

\* ------------------------------------------------- the test stage, as processes

\* The most tests the loops of one runner come to.
MaxTests == 3

\* The test types in the order run_network_tests takes them (lines 340-387),
\* and the configuration key that enables each.
TestTypes == <<"latency", "p2p", "udp">>
EnabledKey(type) ==
    CASE type = "latency" -> "run_latency_tests"
      [] type = "p2p" -> "run_p2p_tests"
      [] type = "udp" -> "run_udp_tests"

\* What follows the part of run_network_tests for a test type: the part of
\* the next type, or the return (lines 389-391).
AfterType(type) ==
    CASE type = "latency" -> [type |-> "p2p", at |-> "call"]
      [] type = "p2p" -> [type |-> "udp", at |-> "call"]
      [] type = "udp" -> [type |-> None, at |-> "done"]

\* Whether a runner script, started with the command line run_network_tests
\* gives it, comes to its test loop. latency_test.py does. The parser of
\* point_to_point_test.py defines no argument (lines 203-206), and main of
\* udp_multicast_test.py defines no --intra-region and calls run_udp_test
\* without ssh_user (lines 219-233): both end before any test.
ReachesTests(type) == type = "latency"

\* One part of run_network_tests (lines 340-387): a test type that is not
\* enabled is passed over; the UDP part opens the instance info outside any
\* try; otherwise run_command starts the runner script with subprocess.run
\* (lines 26-28), which returns only when the process has exited.
RunCommandStart ==
    /\ sched_pc.at = "call"
    /\ LET type == sched_pc.type
       IN  IF ~ConfigGet(sched_config, EnabledKey(type), TRUE)
           THEN /\ sched_pc' = AfterType(type)
                /\ UNCHANGED <<procs, runner_pc>>
           ELSE IF type = "udp" /\ ~sched_files.instance_info
           THEN /\ sched_pc' = [type |-> None, at |-> "raised"]
                /\ UNCHANGED <<procs, runner_pc>>
           ELSE /\ sched_pc' = [type |-> type, at |-> "wait"]
                /\ procs' = procs \cup {type}
                /\ runner_pc' = [runner_pc EXCEPT ![type] = "main"]
    /\ UNCHANGED <<sched_config, sched_files, planned, test_i, in_progress,
                   runnerVars, matrixVars, reconcileVars, mainVars, directoryVars, uiVars>>

\* The runner process parses its arguments and calls its test function, or
\* exits with an error.
RunnerMain(type) ==
    /\ runner_pc[type] = "main"
    /\ IF ReachesTests(type)
       THEN /\ runner_pc' = [runner_pc EXCEPT ![type] = "loop"]
            /\ test_i' = 1
            /\ UNCHANGED procs
       ELSE /\ runner_pc' = [runner_pc EXCEPT ![type] = "exited"]
            /\ procs' = procs \ {type}
            /\ UNCHANGED test_i
    /\ UNCHANGED <<sched_config, sched_files, planned, sched_pc, in_progress,
                   runnerVars, matrixVars, reconcileVars, mainVars, directoryVars, uiVars>>

\* The runner, in its loops, starts the following test as it would were the
\* command started with Popen and not waited for.
StartTest_not_waited(type) ==
    /\ runner_pc[type] = "loop"
    /\ test_i <= planned
    /\ in_progress' = in_progress \cup {<<type, test_i>>}
    /\ test_i' = test_i + 1
    /\ UNCHANGED <<sched_config, sched_files, planned, sched_pc, procs, runner_pc,
                   runnerVars, matrixVars, reconcileVars, mainVars, directoryVars, uiVars>>

\* The runner, in its loops, comes to a test and starts its command with
\* subprocess.run (latency_test.py lines 39-41), which the runner waits in.
StartTest(type) ==
    /\ runner_pc[type] = "loop"
    /\ test_i <= planned
    /\ in_progress' = in_progress \cup {<<type, test_i>>}
    /\ runner_pc' = [runner_pc EXCEPT ![type] = "in_test"]
    /\ UNCHANGED <<sched_config, sched_files, planned, sched_pc, procs, test_i,
                   runnerVars, matrixVars, reconcileVars, mainVars, directoryVars, uiVars>>

\* The command of the test returned, or failed, and its result is handled
\* (latency_test.py lines 41-64 and 205-211): the loop goes on.
EndTest(type) ==
    /\ runner_pc[type] = "in_test"
    /\ in_progress' = in_progress \ {<<type, test_i>>}
    /\ test_i' = test_i + 1
    /\ runner_pc' = [runner_pc EXCEPT ![type] = "loop"]
    /\ UNCHANGED <<sched_config, sched_files, planned, sched_pc, procs,
                   runnerVars, matrixVars, reconcileVars, mainVars, directoryVars, uiVars>>

\* The runner process exits: its loops have ended, or the call site for
\* instances of one region raised NameError before starting its test
\* (latency_test.py lines 183-186).
RunnerExit(type) ==
    /\ runner_pc[type] = "loop"
    /\ \E raised \in BOOLEAN : test_i > planned \/ raised
    /\ runner_pc' = [runner_pc EXCEPT ![type] = "exited"]
    /\ procs' = procs \ {type}
    /\ UNCHANGED <<sched_config, sched_files, planned, sched_pc, test_i, in_progress,
                   runnerVars, matrixVars, reconcileVars, mainVars, directoryVars, uiVars>>

\* subprocess.run returns when the runner process has exited; run_command
\* returns, and its result is not looked at (run_benchmark.py lines 350,
\* 363, 387).
RunCommandReturn ==
    /\ sched_pc.at = "wait"
    /\ sched_pc.type \notin procs
    /\ sched_pc' = AfterType(sched_pc.type)
    /\ UNCHANGED <<sched_config, sched_files, planned, procs, runner_pc, test_i, in_progress,
                   runnerVars, matrixVars, reconcileVars, mainVars, directoryVars, uiVars>>

\* run_network_tests is called with some configuration.
InitSchedule ==
    /\ sched_config \in [run_latency_tests : BOOLEAN, run_p2p_tests : BOOLEAN,
                         run_udp_tests : BOOLEAN] \cup {EmptyMap}
    /\ sched_files \in [instance_info : BOOLEAN]
    /\ planned \in 0..MaxTests
    /\ sched_pc = [type |-> "latency", at |-> "call"]
    /\ procs = {}
    /\ runner_pc = [type \in Range(TestTypes) |-> "unstarted"]
    /\ test_i = 0
    /\ in_progress = {}

NextSchedule ==
    \/ RunCommandStart
    \/ RunCommandReturn
    \/ \E type \in Range(TestTypes) : RunnerMain(type)
    \/ \E type \in Range(TestTypes) : StartTest(type)
    \/ \E type \in Range(TestTypes) : EndTest(type)
    \/ \E type \in Range(TestTypes) : RunnerExit(type)

\* ----------------------------------------------------------- runner inputs

InitRunnerState ==
    /\ pc = "run"
    /\ src_i = 1 /\ dest_i = 1 /\ intra_ij = <<1, 1>>
    /\ results = <<>> /\ attempts = <<>> /\ warnings = <<>>
    /\ summary = None /\ retval = None

InitDirectory ==
    \E n \in 1..MaxRegions, public_assigned \in BOOLEAN :
      \E count \in [1..n -> 0..MaxIps] :
        /\ regions = SubSeq(RegionList, 1, n)
        /\ instances = Directory(n, count, public_assigned)

\* A region name that no instance directory lists.
UnlistedRegion == "sa-east-1"

InitLatency ==
    /\ runner = "latency"
    /\ InitDirectory
    /\ use_private_ip \in BOOLEAN
    /\ all_regions \in BOOLEAN
    /\ intra_region \in BOOLEAN
    /\ source_region \in IF all_regions THEN {None}
                                        ELSE Range(regions) \cup {None, UnlistedRegion}
    /\ target_region \in IF all_regions THEN {None}
                                        ELSE Range(regions) \cup {None, UnlistedRegion}
    /\ server_region = None
    /\ InitRunnerState

InitP2P ==
    /\ runner = "p2p"
    /\ InitDirectory
    /\ use_private_ip \in BOOLEAN
    /\ all_regions \in BOOLEAN
    /\ intra_region \in BOOLEAN
    /\ source_region = None /\ target_region = None /\ server_region = None
    /\ InitRunnerState

\* udp_multicast_test.py run as a script (pc = "main") or run_udp_test
\* called with all its arguments (pc = "run").
InitUdp ==
    /\ runner = "udp"
    /\ InitDirectory
    /\ use_private_ip \in BOOLEAN
    /\ all_regions = FALSE /\ intra_region = FALSE
    /\ source_region = None /\ target_region = None
    /\ server_region \in Range(regions) \cup {UnlistedRegion}
    /\ pc \in {"main", "run"}
    /\ src_i = 1 /\ dest_i = 1 /\ intra_ij = <<1, 1>>
    /\ results = <<>> /\ attempts = <<>> /\ warnings = <<>>
    /\ summary = None /\ retval = None

IdleRunners ==
    /\ runner = "idle"
    /\ regions = <<>> /\ instances = <<>>
    /\ use_private_ip = FALSE /\ all_regions = FALSE /\ intra_region = FALSE
    /\ source_region = None /\ target_region = None /\ server_region = None
    /\ pc = "idle"
    /\ src_i = 1 /\ dest_i = 1 /\ intra_ij = <<1, 1>>
    /\ results = <<>> /\ attempts = <<>> /\ warnings = <<>>
    /\ summary = None /\ retval = None

IdleReconcile ==
    /\ data_dir = <<>> /\ rc_pc = "idle" /\ all_results = <<>>

IdleMain ==
    /\ args = <<>> /\ config = <<>> /\ files = <<>>
    /\ main_pc = "idle" /\ commands = <<>> /\ failed = {} /\ exit_code = None

IdleDirectory == tf_regions = <<>> /\ writer = "idle" /\ instance_info = <<>>

IdleUI ==
    /\ ui_pc = "off" /\ benchmark_running = FALSE /\ run_no = 0 /\ threads = {}
    /\ worker_pc = <<>> /\ output_queue = <<>> /\ run_output = <<>>
    /\ cleanup_running = FALSE /\ command = <<>>

IdleSchedule ==
    /\ sched_config = <<>> /\ sched_files = <<>> /\ planned = 0
    /\ sched_pc = [type |-> None, at |-> "off"] /\ procs = {}
    /\ runner_pc = <<>> /\ test_i = 0 /\ in_progress = {}

\* ------------------------------------------------------------------- claims

\* The tests attempted for the ordered region pair (a, b).
AttemptsOf(a, b) ==
    {k \in 1..Len(attempts) : attempts[k].src = a /\ attempts[k].dest = b}

\* Every region of the directory has an address of the requested type.
EveryRegionHasIp == \A r \in Range(regions) : instances[r][ip_type] # <<>>

\* C1: with all_regions and without intra_region, on a directory of n regions
\* that all have an address of the requested type, a runner that has ended
\* has attempted exactly n*(n-1) tests: one per ordered pair of distinct
\* regions and none for a region with itself.
Cex_C1_InterRegionPairs ==
    (pc \in {"done", "raised"} /\ all_regions /\ ~intra_region /\ EveryRegionHasIp) =>
        /\ Len(attempts) = Len(regions) * (Len(regions) - 1)
        /\ \A a \in Range(regions), b \in Range(regions) :
              Cardinality(AttemptsOf(a, b)) = IF a = b THEN 0 ELSE 1

\* C9 as claimed: with all_regions and without intra_region, a region with
\* k > 1 instances has its k*(k-1) instance pairs tested.
Cex_C9_MultiInstancePairsTested ==
    (pc \in {"done", "raised"} /\ all_regions /\ ~intra_region) =>
        \A r \in Range(regions) :
            LET k == Len(instances[r][ip_type])
            IN  k > 1 => Cardinality(AttemptsOf(r, r)) = k * (k - 1)

\* C9 as amended: with all_regions and without intra_region no test is ever
\* attempted between instances of one region, however many it has.
Thm_C9_NoSameRegionTest ==
    (all_regions /\ ~intra_region) =>
        \A r \in Range(regions) : AttemptsOf(r, r) = {}

Wit_C9_MultiInstanceRegionDone ==
    /\ pc = "done" /\ all_regions /\ ~intra_region
    /\ attempts # <<>>
    /\ \E r \in Range(regions) : Len(instances[r][ip_type]) > 1

MetricColumn == IF df_kind = "latency" THEN "avg_latency_ms" ELSE "bandwidth_mbps"

\* Sum and count of the metric values of the rows of pair (a, b).
PairTotal(a, b) ==
    SumNotNa(df, LAMBDA row : row.source_region = a /\ row.target_region = b,
             MetricColumn, 1)

\* C2: every cell (a, b) of a latency or bandwidth matrix is the arithmetic
\* mean of the metric values of all the rows of pair (a, b).
Cex_C2_CellIsMean ==
    (mx_pc = "done" /\ df_kind \in {"latency", "p2p"} /\ ~matrix.none) =>
        \A p \in matrix.index \X matrix.index :
            LET t == PairTotal(p[1], p[2])
            IN  t.count >= 1 =>
                    /\ notna(matrix.cell[p])
                    /\ matrix.cell[p].num * t.count = t.sum * matrix.cell[p].den

\* C3: every diagonal cell of every matrix made is NaN.
Cex_C3_DiagonalNaN ==
    mx_pc = "done" =>
        /\ \A a \in matrix.index : ~notna(matrix.cell[<<a, a>>])
        /\ \A a \in loss_matrix.index : ~notna(loss_matrix.cell[<<a, a>>])

\* The result file a collected record was parsed from.
FileOf(globbed, record) ==
    CHOOSE f \in Range(ResultFiles(globbed)) : f.name = record.file

\* C4: a region found in a higher-priority source is never replaced by a
\* lower-priority one: each region field embedded in a UDP result file is
\* the region of its collected record, and a point-to-point record whose
\* file name the summary lists has the summary's regions.
Cex_C4_HigherPriorityKept ==
    rc_pc \in {"parse", "parsed"} =>
        /\ \A k \in 1..Len(all_results.udp_multicast_tests) :
              LET r == all_results.udp_multicast_tests[k]
                  f == FileOf(data_dir.udp_files, r)
              IN  /\ Has(f.data, "server_region") =>
                         Has(r, "server_region") /\ r.server_region = f.data.server_region
                  /\ Has(f.data, "client_region") =>
                         Has(r, "client_region") /\ r.client_region = f.data.client_region
        /\ \A k \in 1..Len(all_results.point_to_point_tests) :
              LET r == all_results.point_to_point_tests[k]
              IN  \A sm \in Range(data_dir.p2p_summary_files) :
                      (\E i \in 1..Len(sm) : sm[i].result_file = r.file) =>
                          \E i \in 1..Len(sm) :
                              /\ sm[i].result_file = r.file
                              /\ r.source_region = sm[i].source_region
                              /\ r.target_region = sm[i].target_region

\* The collected records of the directory's kind and their two region keys.
CollectedTests ==
    IF data_dir.scenario = "p2p" THEN all_results.point_to_point_tests
                                 ELSE all_results.udp_multicast_tests
FromKey == IF data_dir.scenario = "p2p" THEN "source_region" ELSE "server_region"
ToKey == IF data_dir.scenario = "p2p" THEN "target_region" ELSE "client_region"
RowsOfPair(a, b) == {i \in 1..Len(df) : df[i][FromKey] = a /\ df[i][ToKey] = b}

FailedCommands == {commands[i].cmd : i \in {j \in 1..Len(commands) : ~commands[j].ok}}
Ran(cmd) == \E i \in 1..Len(commands) : commands[i].cmd = cmd

\* C6: a finished run has exit code 0 only when no command of any stage
\* failed and no stage gave up, and exit code 1 whenever one did.
Cex_C6_ExitCodeReflectsFailure ==
    main_pc = "done" =>
        (exit_code = 0 <=> (FailedCommands = {} /\ failed = {}))

\* C7: a run whose terraform apply failed ends with setup_terraform having
\* returned False, a non-zero exit code, and no install, test or collect
\* command run.
Cex_C7_ApplyFailureAborts ==
    (main_pc = "done" /\ "terraform apply" \in FailedCommands) =>
        /\ "setup_terraform" \in failed
        /\ exit_code # 0
        /\ ~Ran("install_iperf3") /\ ~Ran("latency_test")
        /\ ~Ran("point_to_point_test") /\ ~Ran("udp_multicast_test")
        /\ ~Ran("collect_results")

\* C8: a run that setup_terraform aborted while cleanup_resources was set
\* has run terraform destroy.
Cex_C8_DestroyAfterSetupFailure ==
    (/\ main_pc = "done"
     /\ "setup_terraform" \in failed
     /\ ConfigGet(config, "cleanup_resources", FALSE)) =>
        Ran("terraform destroy")

\* C11: point_to_point_test without all_regions tests exactly the
\* one explicitly given (source, target) region pair.
Cex_C11_P2PSinglePair ==
    (runner = "p2p" /\ ~all_regions /\ pc = "done") =>
        /\ BothRegionsGiven
        /\ Len(attempts) = 1
        /\ attempts[1].src = source_region
        /\ attempts[1].dest = target_region

\* The regions of the directory without an address of the requested type.
EmptyRegions == {r \in Range(regions) : instances[r][ip_type] = <<>>}

\* C12: an all-regions run of the latency or the point-to-point runner ends
\* by returning, has then attempted no test with a region that has no
\* address of the requested type, has warned about each pair it passed over
\* for that reason, and has tested every ordered pair of distinct regions
\* that do have addresses.
Cex_C12_EmptyRegionSkipped ==
    (pc \in {"done", "raised"} /\ all_regions /\ ~intra_region) =>
        /\ pc = "done"
        /\ \A k \in 1..Len(attempts) :
              attempts[k].src \notin EmptyRegions /\ attempts[k].dest \notin EmptyRegions
        /\ \A a \in Range(regions), b \in Range(regions) :
              (a # b /\ (a \in EmptyRegions \/ b \in EmptyRegions)) =>
                  \E w \in Range(warnings) : w[1] = a /\ (w[2] = b \/ runner = "p2p")
        /\ \A a \in Range(regions) \ EmptyRegions, b \in Range(regions) \ EmptyRegions :
              a # b => AttemptsOf(a, b) # {}

\* The ordered region pairs of the directory, in the order of the nested
\* loops "for src_region in regions: for dest_region in regions".
AllPairs ==
    LET n == Len(regions)
    IN  [k \in 1..(n * n) |-> <<regions[((k - 1) \div n) + 1], regions[((k - 1) % n) + 1]>>]

\* The pair set of a run, in instance-directory order: the pairs a runner
\* is to test given its flags and the addresses the directory holds.
PairSet ==
    CASE runner = "latency" /\ all_regions ->
           SelectSeq(AllPairs, LAMBDA p :
               /\ intra_region \/ p[1] # p[2]
               /\ instances[p[1]][ip_type] # <<>> /\ instances[p[2]][ip_type] # <<>>)
      [] runner = "latency" /\ ~all_regions ->
           IF /\ BothRegionsGiven
              /\ {source_region, target_region} \subseteq DOMAIN instances
              /\ instances[source_region][ip_type] # <<>>
              /\ instances[target_region][ip_type] # <<>>
           THEN <<<<source_region, target_region>>>> ELSE <<>>
      [] runner = "p2p" /\ all_regions ->
           SelectSeq(AllPairs, LAMBDA p : p[1] # p[2])
      [] runner = "udp" /\ udp_get_ips(ip_type, <<UdpServerRegion>>) # <<>> ->
           [k \in 1..Len(UdpClients) |-> <<UdpClients[k].region, UdpServerRegion>>]
      [] OTHER -> <<>>

\* The region pairs of the tests attempted so far, in order.
AttemptedPairs == [k \in 1..Len(attempts) |-> <<attempts[k].src, attempts[k].dest>>]

\* A runner has returned having attempted its whole pair set, in order.
EnumerationComplete == pc = "done" /\ AttemptedPairs = PairSet

\* A run that ended in an exception no test command can cause: the unbound
\* name at the intra-region call site, a region the directory does not
\* list, or the script's call of run_udp_test without ssh_user.
RaisedBeforeCommand ==
    /\ pc = "raised"
    /\ \/ runner = "latency" /\ all_regions /\ intra_region
          /\ \E r \in Range(regions) : Len(instances[r][ip_type]) > 1
       \/ runner = "latency" /\ ~all_regions
          /\ {source_region, target_region} \ DOMAIN instances # {}
       \/ runner = "udp" /\ attempts = <<>>

\* C13: a runner that has ended has attempted every pair of its pair set, in
\* instance-directory order, whatever the test commands of the pairs did: it
\* has returned, or it was ended by an exception that no test command caused.
Cex_C13_FailureDoesNotStopEnumeration ==
    (pc \in {"done", "raised"}) => (EnumerationComplete \/ RaisedBeforeCommand)

\* C14: when a runner has returned, its results hold one record for every
\* test it attempted, the failed ones included.
Cex_C14_RecordPerAttempt ==
    (pc = "done" /\ runner \in {"latency", "p2p", "udp"}) =>
        Len(results) = Len(attempts)

\* C15: when the configuration file does not exist, main starts no stage and
\* issues no command, and ends with exit code 1.
Cex_C15_MissingConfigAborts ==
    (main_pc # "idle" /\ ~files.config_exists) =>
        /\ main_pc \in {"config", "done"}
        /\ commands = <<>>
        /\ main_pc = "done" => exit_code = 1

\* C16: the latency runner as run_network_tests starts it (all regions,
\* public addresses, no intra-region tests) on the directory of us-east-1 and
\* eu-west-2 with one public address each ends with exactly two records, one
\* per direction.
Cex_C16_TwoLatencyRecords ==
    (/\ runner = "latency" /\ pc \in {"done", "raised"}
     /\ all_regions /\ ~intra_region /\ ~use_private_ip
     /\ regions = <<"us-east-1", "eu-west-2">>
     /\ \A r \in Range(regions) : Len(instances[r].public_ips) = 1) =>
        /\ pc = "done"
        /\ Len(results) = 2
        /\ results[1].source_region = "us-east-1" /\ results[1].target_region = "eu-west-2"
        /\ results[2].source_region = "eu-west-2" /\ results[2].target_region = "us-east-1"

\* The stage of main a command belongs to, and the stage a position of main
\* is in, numbered in the order provision, install, test, collect/process,
\* visualize, destroy.
StageOfCommand(cmd) ==
    CASE cmd \in {"generate_terraform", "ssh-keygen", "terraform init",
                  "terraform apply", "terraform output"}          -> 1
      [] cmd = "install_iperf3"                                    -> 2
      [] cmd \in {"latency_test", "point_to_point_test",
                  "udp_multicast_test"}                            -> 3
      [] cmd \in {"collect_results", "parse_data", "format_data"} -> 4
      [] cmd = "generate_visualizations"                           -> 5
      [] cmd = "terraform destroy"                                 -> 6

StageOfPc(p) ==
    CASE p = "config" -> 0 [] p = "terraform" -> 1 [] p = "install" -> 2
      [] p = "tests" -> 3 [] p = "process" -> 4 [] p = "report" -> 5
      [] p = "done" -> 7

\* The commands issued so far are in stage order, those of one stage
\* together, and terraform destroy comes after the collection and after
\* every other command.
CommandsInStageOrder ==
    /\ \A i \in 1..Len(commands), j \in 1..Len(commands) :
          i < j => StageOfCommand(commands[i].cmd) <= StageOfCommand(commands[j].cmd)
    /\ \A k \in 1..Len(commands) :
          commands[k].cmd = "terraform destroy" =>
              /\ k = Len(commands)
              /\ \E i \in 1..(k - 1) : commands[i].cmd = "collect_results"
              /\ files.collected

\* C17: every step of main moves to a later stage, never back and never to
\* the same stage again, leaves the commands issued in stage order, and
\* issues terraform destroy only after the results were collected and
\* processed.
Thm_C17_StagesInForwardOrder ==
    [][/\ StageOfPc(main_pc') > StageOfPc(main_pc)
       /\ CommandsInStageOrder'
       /\ \A k \in 1..Len(commands') :
             StageOfCommand(commands'[k].cmd) = 6 \/
             StageOfCommand(commands'[k].cmd) <= StageOfPc(main_pc')]_mainVars

\* C17 happens: a run went through all six stages and ended with exit code 0.
Wit_C17_AllStagesRun ==
    /\ main_pc = "done" /\ exit_code = 0
    /\ {StageOfCommand(commands[k].cmd) : k \in 1..Len(commands)} = 1..6

\* The test commands run_network_tests has started, in order.
TestsStarted ==
    LET tests == SelectSeq(commands, LAMBDA c : StageOfCommand(c.cmd) = 3)
    IN  [k \in 1..Len(tests) |-> tests[k].cmd]

\* The test types the configuration enables, in the order of
\* run_network_tests; the UDP command needs the instance directory to be
\* read first.
TestsEnabled ==
    (IF ConfigGet(config, "run_latency_tests", TRUE) THEN <<"latency_test">> ELSE <<>>)
    \o (IF ConfigGet(config, "run_p2p_tests", TRUE) THEN <<"point_to_point_test">> ELSE <<>>)
    \o (IF ConfigGet(config, "run_udp_tests", TRUE) /\ files.instance_info
        THEN <<"udp_multicast_test">> ELSE <<>>)

AddressesOf(code, ip_key) ==
    {TerraformData(tf_regions)[i][ip_key][1] : i \in {j \in 1..Len(tf_regions) : tf_regions[j] = code}}

\* C19: every key of the instance directory written is the region code of a
\* configured region, never a Terraform output name, and the entry of a
\* region configured more than once holds the addresses of all its outputs.
Cex_C19_KeysAreRegionCodes ==
    (writer \in {"setup_terraform", "generate_instance_info"}) =>
        /\ \A key \in DictKeys(instance_info) :
              Len(key) = 1 /\ key[1] \in Range(tf_regions)
        /\ \A i \in 1..Len(tf_regions) :
              RegionCount(tf_regions, i) > 1 =>
                  /\ <<tf_regions[i]>> \in DictKeys(instance_info)
                  /\ Range(DictGet(instance_info, <<tf_regions[i]>>).public_ips)
                         = AddressesOf(tf_regions[i], "public_ips")
                  /\ Range(DictGet(instance_info, <<tf_regions[i]>>).private_ips)
                         = AddressesOf(tf_regions[i], "private_ips")

\* The items of run r taken off the queue for display.
Consumed(r) == {run_output[k][2] : k \in {j \in 1..Len(run_output) : run_output[j][1] = r}}

\* C20: once the run button handler has finished starting a run, two threads
\* are started for it, the worker and the one that drains the queue, and the
\* running state has ended only if the end-of-output sentinel of the run was
\* taken off the queue.
Cex_C20_DrainThreadAndSentinel ==
    (ui_pc = "idle" /\ run_no > 0) =>
        \A r \in {n \in 1..run_no : command[n] = "run_benchmark"} :
            /\ {<<r, "run_script_in_thread">>, <<r, "update_output_area">>} \subseteq threads
            /\ ~benchmark_running => Sentinel \in Consumed(r)

\* C30: the directory setup_terraform builds has an entry for every
\* configured region, holding the addresses of all the Terraform outputs of
\* that region: no region that was provisioned is left out.
Cex_C30_NoRegionDropped ==
    (writer = "setup_terraform") =>
        \A code \in Range(tf_regions) :
            /\ <<code>> \in DictKeys(instance_info)
            /\ Range(DictGet(instance_info, <<code>>).public_ips) = AddressesOf(code, "public_ips")
            /\ Range(DictGet(instance_info, <<code>>).private_ips) = AddressesOf(code, "private_ips")

\* The server region a call of run_udp_test is to use: the one asked for, or
\* the first of the directory when that one is not listed.
ServerRegionToUse ==
    IF server_region \in Range(regions) THEN server_region ELSE regions[1]

\* The UDP tests attempted with region r as the client.
UdpAttemptsFrom(r) == {k \in 1..Len(attempts) : attempts[k].src = r}

\* One test per client region, and one result entry per test: every region
\* other than the server region that has an address is the client of exactly
\* one test, from its first address to the server region's first address; no
\* other region is a client; each test has its success or failed entry.
OneUdpTestPerClientRegion ==
    /\ \A r \in Range(regions) :
          IF r # ServerRegionToUse /\ instances[r][ip_type] # <<>>
          THEN \E k \in 1..Len(attempts) :
                  /\ UdpAttemptsFrom(r) = {k}
                  /\ attempts[k].dest = ServerRegionToUse
                  /\ attempts[k].call.client_ip = instances[r][ip_type][1]
                  /\ attempts[k].call.server_ip = instances[ServerRegionToUse][ip_type][1]
          ELSE UdpAttemptsFrom(r) = {}
    /\ Len(results) = Len(attempts)
    /\ \A k \in 1..Len(results) :
          /\ results[k].status \in {"success", "failed"}
          /\ results[k].client_ip = attempts[k].call.client_ip

\* C28: a call of run_udp_test that has returned has attempted one test per
\* client region and returned one result entry per test.
Cex_C28_OneUdpTestPerClient ==
    (runner = "udp" /\ pc = "done") =>
        /\ \A r \in Range(regions) \ {ServerRegionToUse} :
              instances[r][ip_type] # <<>> => UdpAttemptsFrom(r) # {}
        /\ retval = "results"
        /\ Len(results) = Len(attempts)

\* C28 as amended: when the server region has an address, a call of
\* run_udp_test that has returned has attempted one test per client region
\* and returned one result entry per test; when it has none, the call
\* returns None and has attempted no test.
Thm_C28_OneUdpTestPerClient ==
    (runner = "udp" /\ pc = "done") =>
        IF instances[ServerRegionToUse][ip_type] # <<>>
        THEN retval = "results" /\ OneUdpTestPerClientRegion
        ELSE retval = None /\ attempts = <<>> /\ results = <<>>

\* C28 happens: the server region asked for is not listed, the first region
\* serves, and two other regions were tested against it, one test failing.
Wit_C28_FallbackServerTwoClients ==
    /\ runner = "udp" /\ pc = "done"
    /\ server_region \notin Range(regions)
    /\ Len(attempts) = 2
    /\ {results[k].status : k \in 1..Len(results)} = {"success", "failed"}

\* C27: every ping test run_latency_benchmark starts is called with the
\* caller's values in their roles: the count is ping_count, the directory is
\* output_dir and the user is a login of the instances; and no call site
\* fails before the call because a name it passes is unbound.
Cex_C27_PingArgumentsInRole ==
    (runner = "latency") =>
        /\ \A k \in 1..Len(attempts) :
              /\ attempts[k].call.count = PING_COUNT
              /\ attempts[k].call.output_dir = OUTPUT_DIR
              /\ attempts[k].call.ssh_user \in LoginUsers
        /\ ~(pc = "raised" /\ all_regions)

\* C23: with cleanup_resources set, a run of main that executed terraform
\* apply and has ended, whichever later stage failed, has executed
\* terraform destroy.
Cex_C23_DestroyAfterLaterFailure ==
    (/\ main_pc = "done"
     /\ ConfigGet(config, "cleanup_resources", FALSE)
     /\ Ran("terraform apply")
     /\ failed \cap {"install_iperf3", "run_network_tests", "process_test_results"} # {}) =>
        Ran("terraform destroy")

\* A file name, split at "_", with its extension: the file names the runners
\* write and the patterns collect_results globs for.
FileName(parts, ext) == [parts |-> parts, ext |-> ext]

\* The file of one UDP test (udp_multicast_test.py line 125):
\* udp_{server_ip}_to_{client_ip}_{timestamp}.json.
result_json_file(server_ip, client_ip) ==
    FileName(<<"udp", server_ip, "to", client_ip, "timestamp">>, "json")

\* The file of the point-to-point tests (point_to_point_test.py line 56):
\* p2p_results_{timestamp}.csv, the only file run_p2p_test writes.
output_file == FileName(<<"p2p", "results", "timestamp">>, "csv")

\* glob of '<prefix>_*.<ext>' (collect_results.py lines 87-88): the name
\* begins with the prefix and an underscore and ends with the extension.
GlobMatches(prefix, ext, name) ==
    /\ name.ext = ext
    /\ Len(name.parts) > Len(prefix)
    /\ SubSeq(name.parts, 1, Len(prefix)) = prefix

\* The test files collect_results finds (lines 87-88): 'p2p_*.json' goes to
\* point_to_point_tests, 'udp_multicast_*.json' to udp_multicast_tests.
p2p_files(name) == GlobMatches(<<"p2p">>, "json", name)
udp_files(name) == GlobMatches(<<"udp", "multicast">>, "json", name)

\* C22: every result file a runner has written is found by collect_results:
\* the file of each successful UDP test matches the pattern of
\* udp_multicast_tests, and the file of the point-to-point tests the pattern
\* of point_to_point_tests.
Cex_C22_ResultFilesDiscovered ==
    /\ (runner = "udp") =>
          \A k \in 1..Len(results) :
              (results[k].status = "success") =>
                  udp_files(result_json_file(results[k].server_ip, results[k].client_ip))
    /\ (runner = "p2p" /\ pc = "done" /\ results # <<>>) => p2p_files(output_file)

\* C29: when the collector succeeded, the file parsed is the one its output
\* line reported, not the latest file of the data directory; and when
\* parse_data succeeded, the CSV paths it reported are handed to format_data.
Cex_C29_ReportedPathsUsed ==
    \A k \in 2..Len(commands) :
        /\ (/\ commands[k].cmd = "parse_data"
            /\ commands[k - 1].cmd = "collect_results" /\ commands[k - 1].ok) =>
               commands[k].input = "reported"
        /\ (/\ commands[k].cmd = "format_data"
            /\ commands[k - 1].cmd = "parse_data" /\ commands[k - 1].ok) =>
               /\ commands[k].p2p_csv = <<"p2p_results_now.csv">>
               /\ commands[k].udp_csv = <<"udp_results_now.csv">>

\* C26: a worker puts None exactly once and last: the queue of a worker that
\* has not finished holds no None, and the queue of a finished worker ends
\* with None and holds no other, whether the process exited with 0, with a
\* non-zero code, or starting or reading it raised.
Thm_C26_SentinelOnceAndLast ==
    \A r \in 1..MaxRuns :
        LET q == output_queue[r]
        IN  IF worker_pc[r] = "finished"
            THEN /\ q # <<>>
                 /\ q[Len(q)] = Sentinel
                 /\ \A k \in 1..(Len(q) - 1) : q[k] # Sentinel
            ELSE \A k \in 1..Len(q) : q[k] # Sentinel

\* A worker that put a line, then the ERROR line, then None, has finished.
Wit_C26_LineErrorSentinel ==
    \E r \in 1..MaxRuns :
        /\ worker_pc[r] = "finished"
        /\ output_queue[r] = <<Line(1), ErrorLine, Sentinel>>

\* The process of run r is alive: Popen has returned and the process has not
\* been waited for yet.
ProcessAlive(r) == worker_pc[r] = "reading"

\* C24: while the pipeline process of a benchmark run is alive,
\* benchmark_running is true, and no other run, benchmark or terraform
\* destroy, has a worker started beside it.
Cex_C24_RunningWhilePipelineAlive ==
    \A r \in 1..MaxRuns :
        (command[r] = "run_benchmark" /\ ProcessAlive(r)) =>
            /\ benchmark_running
            /\ \A other \in (1..MaxRuns) \ {r} :
                   worker_pc[other] \in {"unstarted", "finished"}

\* C25: once the worker of a cleanup has finished, all it put on the queue
\* was taken off, and the script is not inside the handler any more,
\* cleanup_running is False again.
Cex_C25_CleanupRunningReset ==
    \A r \in 1..MaxRuns :
        (/\ command[r] = "terraform destroy"
         /\ worker_pc[r] = "finished"
         /\ Unread(r) = <<>>
         /\ ui_pc = "idle") =>
            ~cleanup_running

\* C21: at most one test is in progress, it belongs to the one runner process
\* that is alive, and run_network_tests is waiting for that process: no test
\* of a pair starts before the test before it has returned, and no runner
\* starts before the one before it has exited.
Thm_C21_OneTestInProgress ==
    /\ Cardinality(in_progress) <= 1
    /\ Cardinality(procs) <= 1
    /\ \A t \in in_progress :
          /\ t[1] \in procs
          /\ t[2] = test_i
    /\ \A type \in procs : sched_pc = [type |-> type, at |-> "wait"]

\* The second latency test is in progress, and the runner of the
\* point-to-point tests has not been started.
Wit_C21_SecondTestInProgress ==
    /\ in_progress = {<<"latency", 2>>}
    /\ runner_pc["p2p"] = "unstarted"

\* ------------------------------------------------------------ specifications

\* The test runners, each started on an instance directory.
InitRunners ==
    /\ InitLatency \/ InitP2P \/ InitUdp
    /\ IdleMatrix /\ IdleReconcile /\ IdleMain /\ IdleDirectory /\ IdleUI /\ IdleSchedule

NextRunners ==
    \/ LatencyPair
    \/ LatencyIntraPair
    \/ LatencySpecificPair
    \/ LatencyInvalidArguments
    \/ LatencySummary
    \/ P2PSource
    \/ P2PDest
    \/ P2PFinish
    \/ UdpMain
    \/ UdpStart
    \/ UdpClient
    \/ UdpFinish

SpecRunners == InitRunners /\ [][NextRunners]_vars

\* The matrix functions, applied to a DataFrame.
InitMatrices ==
    /\ InitMatrix
    /\ IdleRunners /\ IdleReconcile /\ IdleMain /\ IdleDirectory /\ IdleUI /\ IdleSchedule

SpecMatrix == InitMatrices /\ [][NextMatrix]_vars

\* collect_results, parse_data and the matrices, run on a data directory.
InitReconciliation ==
    /\ InitReconcile
    /\ IdleRunners /\ IdleMain /\ IdleDirectory /\ IdleUI /\ IdleSchedule

SpecReconcile == InitReconciliation /\ [][NextReconcile]_vars

\* One run of run_benchmark.main.
InitBenchmark ==
    /\ InitMain
    /\ IdleRunners /\ IdleMatrix /\ IdleReconcile /\ IdleDirectory /\ IdleUI /\ IdleSchedule

SpecMain == InitBenchmark /\ [][NextMain]_vars

\* The two writers of instance_info.json, each run on the Terraform outputs
\* of a configuration.
InitWriters ==
    /\ InitDirectoryWriters
    /\ IdleRunners /\ IdleMatrix /\ IdleReconcile /\ IdleMain /\ IdleUI /\ IdleSchedule

SpecWriters == InitWriters /\ [][NextDirectoryWriters]_vars

\* One session of the Streamlit UI: the run button handler and the worker
\* threads it starts.
InitSession ==
    /\ InitUI
    /\ IdleRunners /\ IdleMatrix /\ IdleReconcile /\ IdleMain /\ IdleDirectory /\ IdleSchedule

SpecUI == InitSession /\ [][NextUI]_vars

\* The test stage: run_network_tests and the runner processes it starts.
InitTestStage ==
    /\ InitSchedule
    /\ IdleRunners /\ IdleMatrix /\ IdleReconcile /\ IdleMain /\ IdleDirectory /\ IdleUI

SpecSchedule == InitTestStage /\ [][NextSchedule]_vars

====
